---------------------------- MODULE Spec2Model ----------------------------
(***************************************************************************)
(* Signing core of the Hyperliquid Go SDK (package signing, package utils, *)
(* package types): canonical (MessagePack) encoding of an action, the      *)
(* action hash, the phantom agent, the user-signed payload and the         *)
(* formatting of the signature.                                            *)
(*                                                                         *)
(* Go values are records tagged by "kind".  A byte string is a sequence of *)
(* numbers 0..255.  A Go string that is only copied or encoded is a TLA+   *)
(* string with its UTF-8 bytes in the table Utf8; a Go string that the     *)
(* code inspects character by character (a hex address, a hex rendering)   *)
(* is a sequence of one-character strings.                                 *)
(***************************************************************************)
EXTENDS Integers, Sequences, FiniteSets, TLC

VARIABLES
    args,   \* the arguments the caller holds and passes to the signing core
    last,   \* the most recent call of the signing core: operation, arguments, result
    prev,   \* the ActionHash call made before `last`, or NoCall
    client, \* the fields of the WebSocket client
    net,    \* the connections, contexts and channels the client has made, and counts of calls
    pc      \* the position of each goroutine that uses the client

vars == <<args, last, prev, client, net, pc>>

NoCall == [op |-> "none"]

\* no WebSocket client has been made
NoWebSocket == client = NoCall /\ net = NoCall /\ pc = NoCall

-----------------------------------------------------------------------------
(* Generic helpers *)

Range(f) == {f[i] : i \in DOMAIN f}

\* every order in which the keys of a Go map can be visited by `range`
Perms(S) == {p \in [1..Cardinality(S) -> S] : \A i, j \in 1..Cardinality(S) : p[i] = p[j] => i = j}

RECURSIVE Concat(_)
Concat(seqs) == IF seqs = <<>> THEN <<>> ELSE Head(seqs) \o Concat(Tail(seqs))

-----------------------------------------------------------------------------
(* Go values *)

Str(s)      == [kind |-> "string", str |-> s]
Bool(b)     == [kind |-> "bool", bool |-> b]
GoInt(n)    == [kind |-> "int", int |-> n]
GoUint32(n) == [kind |-> "uint32", int |-> n]
\* 64-bit integers are four 16-bit limbs, most significant first (two's complement for int64)
Uint64(l)   == [kind |-> "uint64", limbs |-> l]
Int64(l)    == [kind |-> "int64", limbs |-> l]
GoMap(m)    == [kind |-> "map", m |-> m]
Slice(s)    == [kind |-> "slice", elems |-> s]
NilPtr      == [kind |-> "nil"]
Chan        == [kind |-> "chan"]

\* limbs of a small integer, sign-extended to 64 bits
Limbs(n) == <<(((n \div 65536) \div 65536) \div 65536) % 65536,
              ((n \div 65536) \div 65536) % 65536,
              (n \div 65536) % 65536,
              n % 65536>>

\* binary.BigEndian.PutUint64
BigEndian64(l) == <<l[1] \div 256, l[1] % 256, l[2] \div 256, l[2] % 256,
                    l[3] \div 256, l[3] % 256, l[4] \div 256, l[4] % 256>>

\* UTF-8 bytes of the strings that occur in the modelled actions
Utf8 ==
     ("type" :> <<116, 121, 112, 101>>)
  @@ ("num" :> <<110, 117, 109>>)
  @@ ("dummy" :> <<100, 117, 109, 109, 121>>)
  @@ ("order" :> <<111, 114, 100, 101, 114>>)
  @@ ("orders" :> <<111, 114, 100, 101, 114, 115>>)
  @@ ("grouping" :> <<103, 114, 111, 117, 112, 105, 110, 103>>)
  @@ ("na" :> <<110, 97>>)
  @@ ("builder" :> <<98, 117, 105, 108, 100, 101, 114>>)
  @@ ("a" :> <<97>>)
  @@ ("b" :> <<98>>)
  @@ ("p" :> <<112>>)
  @@ ("s" :> <<115>>)
  @@ ("r" :> <<114>>)
  @@ ("t" :> <<116>>)
  @@ ("c" :> <<99>>)
  @@ ("f" :> <<102>>)
  @@ ("B" :> <<66>>)
  @@ ("F" :> <<70>>)
  @@ ("limit" :> <<108, 105, 109, 105, 116>>)
  @@ ("trigger" :> <<116, 114, 105, 103, 103, 101, 114>>)
  @@ ("tif" :> <<116, 105, 102>>)
  @@ ("Gtc" :> <<71, 116, 99>>)
  @@ ("Ioc" :> <<73, 111, 99>>)
  @@ ("triggerPx" :> <<116, 114, 105, 103, 103, 101, 114, 80, 120>>)
  @@ ("isMarket" :> <<105, 115, 77, 97, 114, 107, 101, 116>>)
  @@ ("tpsl" :> <<116, 112, 115, 108>>)
  @@ ("tp" :> <<116, 112>>)
  @@ ("sl" :> <<115, 108>>)
  @@ ("oid" :> <<111, 105, 100>>)
  @@ ("100" :> <<49, 48, 48>>)
  @@ ("1670.1" :> <<49, 54, 55, 48, 46, 49>>)
  @@ ("0.0147" :> <<48, 46, 48, 49, 52, 55>>)
  @@ ("0x00000000000000000000000000000001" :>
        <<48, 120, 48, 48, 48, 48, 48, 48, 48, 48, 48, 48, 48, 48, 48, 48, 48, 48,
          48, 48, 48, 48, 48, 48, 48, 48, 48, 48, 48, 48, 48, 48, 48, 49>>)
  @@ ("0x1719884eb866cb12b2287399b15f7db5e7d775ea" :>
        <<48, 120, 49, 55, 49, 57, 56, 56, 52, 101, 98, 56, 54, 54, 99, 98, 49, 50,
          98, 50, 50, 56, 55, 51, 57, 57, 98, 49, 53, 102, 55, 100, 98, 53, 101, 55,
          100, 55, 55, 53, 101, 97>>)

-----------------------------------------------------------------------------
(* Wire records of package types: for each struct its fields in declaration *)
(* order, with the Go field name, the name in the json tag, the name in the  *)
(* msgpack tag ("" when the field has no such tag) and the omitempty option. *)

Field(go, json, msgpack, omit) ==
    [go |-> go, json |-> json, msgpack |-> msgpack, omitempty |-> omit]

LimitOrderType == <<Field("Tif", "tif", "tif", FALSE)>>

TriggerOrderTypeWire ==
    <<Field("TriggerPx", "triggerPx", "triggerPx", FALSE),
      Field("IsMarket", "isMarket", "isMarket", FALSE),
      Field("Tpsl", "tpsl", "tpsl", FALSE)>>

OrderTypeWire ==
    <<Field("Limit", "limit", "limit", TRUE),
      Field("Trigger", "trigger", "trigger", TRUE)>>

OrderWire ==
    <<Field("Asset", "a", "a", FALSE),
      Field("IsBuy", "b", "b", FALSE),
      Field("LimitPx", "p", "p", FALSE),
      Field("Sz", "s", "s", FALSE),
      Field("ReduceOnly", "r", "r", FALSE),
      Field("OrderType", "t", "t", FALSE),
      Field("Cloid", "c", "c", TRUE)>>

ModifyWire ==
    <<Field("Oid", "oid", "oid", FALSE),
      Field("Order", "order", "order", FALSE)>>

\* BuilderInfo declares json tags only
BuilderInfo ==
    <<Field("B", "b", "", FALSE),
      Field("F", "f", "", FALSE)>>

StructTypes ==
    [LimitOrderType |-> LimitOrderType,
     TriggerOrderTypeWire |-> TriggerOrderTypeWire,
     OrderTypeWire |-> OrderTypeWire,
     OrderWire |-> OrderWire,
     ModifyWire |-> ModifyWire,
     BuilderInfo |-> BuilderInfo]

\* a struct value: its type and the value of each Go field
Struct(type, vals) == [kind |-> "struct", type |-> type, vals |-> vals]

-----------------------------------------------------------------------------
(* github.com/vmihailenco/msgpack/v5 as msgpack.Marshal uses it: default    *)
(* encoder flags (no sorted map keys, no compact ints, struct tag msgpack). *)

EncodeNil == <<192>>

EncodeBool(b) == IF b THEN <<195>> ELSE <<194>>

EncodeMapLen(n) == IF n < 16 THEN <<128 + n>> ELSE <<222, n \div 256, n % 256>>

EncodeArrayLen(n) == IF n < 16 THEN <<144 + n>> ELSE <<220, n \div 256, n % 256>>

EncodeBytesOfString(b) ==
    IF Len(b) < 32 THEN <<160 + Len(b)>> \o b
    ELSE IF Len(b) < 256 THEN <<217, Len(b)>> \o b
    ELSE <<218, Len(b) \div 256, Len(b) % 256>> \o b

EncodeString(s) == EncodeBytesOfString(Utf8[s])

\* Encoder.EncodeUint: the shortest unsigned form (Go int and uint take this path)
EncodeUint(n) ==
    IF n <= 127 THEN <<n>>
    ELSE IF n <= 255 THEN <<204, n>>
    ELSE IF n <= 65535 THEN <<205, n \div 256, n % 256>>
    ELSE <<206, (n \div 16777216) % 256, (n \div 65536) % 256, (n \div 256) % 256, n % 256>>

\* Encoder.EncodeInt: a non-negative value is encoded as unsigned
EncodeInt(n) ==
    IF n >= 0 THEN EncodeUint(n)
    ELSE IF n >= -32 THEN <<256 + n>>
    ELSE IF n >= -128 THEN <<208, 256 + n>>
    ELSE IF n >= -32768 THEN <<209, (65536 + n) \div 256, (65536 + n) % 256>>
    ELSE <<210, 255, ((n \div 65536) % 256), ((n \div 256) % 256), n % 256>>

\* encodeUint64Cond / encodeInt64Cond without the compact-ints flag: always 8 bytes
EncodeUint64(l) == <<207>> \o BigEndian64(l)
EncodeInt64(l)  == <<211>> \o BigEndian64(l)

\* the key a struct field is encoded under: the name in the tag the encoder reads
\* (Encoder.structTag), else the Go field name
FieldName(f, structTag) == IF f[structTag] # "" THEN f[structTag] ELSE f.go

\* omitempty drops a nil pointer
IsEmptyValue(v) == v.kind = "nil"

\* the fields of a struct value that are encoded, in declaration order
EncodedFields(v) ==
    SelectSeq(StructTypes[v.type], LAMBDA f : ~(f.omitempty /\ IsEmptyValue(v.vals[f.go])))

RECURSIVE Encodable(_)
Encodable(v) ==
    CASE v.kind = "chan"   -> FALSE
      [] v.kind = "slice"  -> \A i \in 1..Len(v.elems) : Encodable(v.elems[i])
      [] v.kind = "struct" -> \A i \in 1..Len(EncodedFields(v)) :
                                  Encodable(v.vals[EncodedFields(v)[i].go])
      [] v.kind = "map"    -> \A k \in DOMAIN v.m : Encodable(v.m[k])
      [] OTHER             -> TRUE

\* Encoder.Encode for every value but a Go map
RECURSIVE EncodeValue(_, _)
EncodeValue(v, structTag) ==
    CASE v.kind = "nil"    -> EncodeNil
      [] v.kind = "bool"   -> EncodeBool(v.bool)
      [] v.kind = "string" -> EncodeString(v.str)
      [] v.kind = "int"    -> EncodeInt(v.int)
      [] v.kind = "uint64" -> EncodeUint64(v.limbs)
      [] v.kind = "int64"  -> EncodeInt64(v.limbs)
      [] v.kind = "slice"  ->
            EncodeArrayLen(Len(v.elems))
              \o Concat([i \in 1..Len(v.elems) |-> EncodeValue(v.elems[i], structTag)])
      [] v.kind = "struct" ->
            LET fs == EncodedFields(v) IN
            EncodeMapLen(Len(fs))
              \o Concat([i \in 1..Len(fs) |->
                           EncodeString(FieldName(fs[i], structTag))
                             \o EncodeValue(v.vals[fs[i].go], structTag)])

\* Encoder.EncodeMap of a map[string]any: `for mk, mv := range m`, the keys in
\* the order iter in which this run of the Go runtime visits them
EncodeMap(m, iter, structTag) ==
    EncodeMapLen(Len(iter))
      \o Concat([i \in 1..Len(iter) |->
                   EncodeString(iter[i]) \o EncodeValue(m[iter[i]], structTag)])

\* the orders in which the encoder can visit the keys of v (one order for a non-map)
MapRange(v) == IF v.kind = "map" THEN Perms(DOMAIN v.m) ELSE {<<>>}

\* Encoder.Encode at the top level; the modelled actions hold Go maps at the top level only
Encode(v, iter, structTag) ==
    IF v.kind = "map" THEN EncodeMap(v.m, iter, structTag) ELSE EncodeValue(v, structTag)

\* msgpack.Marshal: (data, err), a pooled encoder reset to the default struct tag
Marshal(v, iter) ==
    IF ~Encodable(v) THEN [err |-> TRUE, data |-> <<>>]
    ELSE [err |-> FALSE, data |-> Encode(v, iter, "msgpack")]

-----------------------------------------------------------------------------
(* package utils *)

HexDigits ==
    [c \in {"0","1","2","3","4","5","6","7","8","9"} |->
        CASE c = "0" -> 0 [] c = "1" -> 1 [] c = "2" -> 2 [] c = "3" -> 3 [] c = "4" -> 4
          [] c = "5" -> 5 [] c = "6" -> 6 [] c = "7" -> 7 [] c = "8" -> 8 [] c = "9" -> 9]
    @@ [c \in {"a","b","c","d","e","f"} |->
        CASE c = "a" -> 10 [] c = "b" -> 11 [] c = "c" -> 12
          [] c = "d" -> 13 [] c = "e" -> 14 [] c = "f" -> 15]
    @@ [c \in {"A","B","C","D","E","F"} |->
        CASE c = "A" -> 10 [] c = "B" -> 11 [] c = "C" -> 12
          [] c = "D" -> 13 [] c = "E" -> 14 [] c = "F" -> 15]

IsHexDigit(c) == c \in DOMAIN HexDigits

\* strings.TrimPrefix(address, "0x")
TrimPrefix0x(a) ==
    IF Len(a) >= 2 /\ a[1] = "0" /\ a[2] = "x" THEN SubSeq(a, 3, Len(a)) ELSE a

\* AddressToBytes: (bytes, err).  len(address)/2 bytes are decoded, two hex digits
\* each with strconv.ParseUint(.., 16, 8); the first pair that does not parse is the error
AddressToBytes(address) ==
    LET a == TrimPrefix0x(address)
        n == Len(a) \div 2
        bad == {i \in 1..n : ~(IsHexDigit(a[2 * i - 1]) /\ IsHexDigit(a[2 * i]))}
    IN  IF bad # {} THEN [err |-> TRUE, bytes |-> <<>>]
        ELSE [err |-> FALSE,
              bytes |-> [i \in 1..n |-> 16 * HexDigits[a[2 * i - 1]] + HexDigits[a[2 * i]]]]

-----------------------------------------------------------------------------
(* package signing: the action hash *)

\* an optional argument (*string, *int64)
Nil      == [isNil |-> TRUE]
Ptr(v)   == [isNil |-> FALSE, val |-> v]

\* crypto.Keccak256: the 32-byte digest of data, identified by the bytes it was
\* computed from (the hash is taken to be collision free)
Keccak256(data) == [keccak256 |-> data]

\* ActionHash with the expiry marker written as 0x01
ActionHashMarkerOne(action, vaultAddress, nonce, expiresAfter, iter) ==
    LET m         == Marshal(action, iter)
        withNonce == m.data \o BigEndian64(Limbs(nonce))
        addr      == IF vaultAddress.isNil THEN [err |-> FALSE, bytes |-> <<>>]
                     ELSE AddressToBytes(vaultAddress.val)
        withVault == IF vaultAddress.isNil THEN withNonce \o <<0>>
                     ELSE withNonce \o <<1>> \o addr.bytes
        data      == IF expiresAfter.isNil THEN withVault
                     ELSE withVault \o <<1>> \o BigEndian64(Limbs(expiresAfter.val))
    IN  IF m.err THEN [err |-> "failed to marshal action", hash |-> Nil]
        ELSE IF addr.err THEN [err |-> "invalid vault address", hash |-> Nil]
        ELSE [err |-> "", hash |-> Ptr(Keccak256(data))]

\* ActionHash without the expiry section
ActionHashNoExpires(action, vaultAddress, nonce, expiresAfter, iter) ==
    LET m         == Marshal(action, iter)
        withNonce == m.data \o BigEndian64(Limbs(nonce))
        addr      == IF vaultAddress.isNil THEN [err |-> FALSE, bytes |-> <<>>]
                     ELSE AddressToBytes(vaultAddress.val)
        data      == IF vaultAddress.isNil THEN withNonce \o <<0>>
                     ELSE withNonce \o <<1>> \o addr.bytes
    IN  IF m.err THEN [err |-> "failed to marshal action", hash |-> Nil]
        ELSE IF addr.err THEN [err |-> "invalid vault address", hash |-> Nil]
        ELSE [err |-> "", hash |-> Ptr(Keccak256(data))]

\* ActionHash: (hash, err).  iter is the order in which the encoder visits the
\* keys of the action when the action is a Go map
ActionHash(action, vaultAddress, nonce, expiresAfter, iter) ==
    LET m         == Marshal(action, iter)
        withNonce == m.data \o BigEndian64(Limbs(nonce))
        addr      == IF vaultAddress.isNil THEN [err |-> FALSE, bytes |-> <<>>]
                     ELSE AddressToBytes(vaultAddress.val)
        withVault == IF vaultAddress.isNil THEN withNonce \o <<0>>
                     ELSE withNonce \o <<1>> \o addr.bytes
        data      == IF expiresAfter.isNil THEN withVault
                     ELSE withVault \o <<0>> \o BigEndian64(Limbs(expiresAfter.val))
    IN  IF m.err THEN [err |-> "failed to marshal action", hash |-> Nil]
        ELSE IF addr.err THEN [err |-> "invalid vault address", hash |-> Nil]
        ELSE [err |-> "", hash |-> Ptr(Keccak256(data))]

\* OrderWiresToOrderAction: a Go map literal, and the builder key added when a builder is given
OrderWiresToOrderAction(orderWires, builder) ==
    LET action == [type |-> Str("order"), orders |-> Slice(orderWires), grouping |-> Str("na")]
    IN  IF builder.isNil THEN GoMap(action)
        ELSE GoMap([type |-> action.type, orders |-> action.orders,
                    grouping |-> action.grouping, builder |-> builder.val])

-----------------------------------------------------------------------------
(* package signing: the envelopes *)

HashLength == 32    \* bytes of a Keccak-256 digest and of a common.Hash

\* byte i of a digest
ByteAt(digest, i) == [byte |-> i, of |-> digest]

\* common.BytesToHash applied to a digest: the rightmost HashLength bytes, held as
\* a fixed-size array (a digest has HashLength bytes, so nothing is cropped)
BytesToHash(b) ==
    [kind |-> "common.Hash", bytes |-> [i \in 1..HashLength |-> ByteAt(b, i)]]

\* ConstructPhantomAgent with the digest stored as the byte slice it was given
ConstructPhantomAgentByteSlice(hash, isMainnet) ==
    [source |-> Str(IF isMainnet THEN "a" ELSE "b"),
     connectionId |-> [kind |-> "[]byte", bytes |-> hash]]

\* ConstructPhantomAgent: the contents of the returned map[string]any
ConstructPhantomAgent(hash, isMainnet) ==
    [source |-> Str(IF isMainnet THEN "a" ELSE "b"), connectionId |-> BytesToHash(hash)]

\* an apitypes.Type
Type(name, type) == [Name |-> name, Type |-> type]

EIP712Domain ==
    <<Type("name", "string"), Type("version", "string"),
      Type("chainId", "uint256"), Type("verifyingContract", "address")>>

ZeroAddress == "0x0000000000000000000000000000000000000000"

\* a *big.Int: sign and magnitude (four 16-bit limbs, most significant first)
BigInt(neg, mag) == [kind |-> "*big.Int", neg |-> neg, mag |-> mag]

\* L1Payload with the chain id of the user-signed domain
L1PayloadUserChain(phantomAgent) ==
    [Types       |-> [Agent |-> <<Type("source", "string"), Type("connectionId", "bytes32")>>,
                      EIP712Domain |-> EIP712Domain],
     PrimaryType |-> "Agent",
     Domain      |-> [Name |-> "Exchange", Version |-> "1",
                      ChainId |-> BigInt(FALSE, Limbs(421614)),
                      VerifyingContract |-> ZeroAddress],
     Message     |-> phantomAgent]

\* L1Payload: the apitypes.TypedData of an exchange action
L1Payload(phantomAgent) ==
    [Types       |-> [Agent |-> <<Type("source", "string"), Type("connectionId", "bytes32")>>,
                      EIP712Domain |-> EIP712Domain],
     PrimaryType |-> "Agent",
     Domain      |-> [Name |-> "Exchange", Version |-> "1",
                      ChainId |-> BigInt(FALSE, Limbs(1337)),
                      VerifyingContract |-> ZeroAddress],
     Message     |-> phantomAgent]

\* the strings that the code or the typed-data library reads character by character
Chars ==
    [s \in {"string"} |-> <<"s","t","r","i","n","g">>]
    @@ [s \in {"bool"} |-> <<"b","o","o","l">>]
    @@ [s \in {"address"} |-> <<"a","d","d","r","e","s","s">>]
    @@ [s \in {"bytes32"} |-> <<"b","y","t","e","s","3","2">>]
    @@ [s \in {"uint64"} |-> <<"u","i","n","t","6","4">>]
    @@ [s \in {"uint256"} |-> <<"u","i","n","t","2","5","6">>]
    @@ [s \in {"0x66eee"} |-> <<"0","x","6","6","e","e","e">>]
    @@ [s \in {"0xa4b1"} |-> <<"0","x","a","4","b","1">>]

\* strings.HasPrefix
HasPrefix(s, prefix) == Len(s) >= Len(prefix) /\ SubSeq(s, 1, Len(prefix)) = prefix

\* big.Int.SetString(s, 16) for at most sixteen hex digits
SetString16(s) ==
    LET pad == [i \in 1..(16 - Len(s)) |-> "0"] \o s
    IN  BigInt(FALSE, [k \in 1..4 |-> 4096 * HexDigits[pad[4 * k - 3]] + 256 * HexDigits[pad[4 * k - 2]]
                                        + 16 * HexDigits[pad[4 * k - 1]] + HexDigits[pad[4 * k]]])

\* the magnitude of a negative 64-bit two's complement value
Negate(l) ==
    LET c4 == (65535 - l[4]) + 1
        c3 == (65535 - l[3]) + c4 \div 65536
        c2 == (65535 - l[2]) + c3 \div 65536
        c1 == (65535 - l[1]) + c2 \div 65536
    IN  <<c1 % 65536, c2 % 65536, c3 % 65536, c4 % 65536>>

\* big.NewInt(v) of an int64
NewInt(l) == IF l[1] >= 32768 THEN BigInt(TRUE, Negate(l)) ELSE BigInt(FALSE, l)

\* new(big.Int).SetUint64(v)
SetUint64(l) == BigInt(FALSE, l)

\* the type switch of UserSignedPayload on the value of an integer field
ToBigInt(value) ==
    CASE value.kind = "int64"  -> NewInt(value.limbs)
      [] value.kind = "uint64" -> SetUint64(value.limbs)
      [] value.kind = "int"    -> NewInt(Limbs(value.int))
      [] OTHER                 -> value

\* the field of signatureTypes that the loop of UserSignedPayload visits last under a name
LastField(signatureTypes, name) ==
    signatureTypes[CHOOSE i \in DOMAIN signatureTypes :
                      /\ signatureTypes[i].Name = name
                      /\ \A j \in DOMAIN signatureTypes : signatureTypes[j].Name = name => j <= i]

IsIntegerType(type) ==
    HasPrefix(Chars[type], <<"u","i","n","t">>) \/ HasPrefix(Chars[type], <<"i","n","t">>)

\* UserSignedPayload with a nil entry for a declared field that the action lacks
UserSignedPayloadDefaulted(action, signatureTypes, primaryType) ==
    LET chainIDHex == IF "signatureChainId" \in DOMAIN action
                         /\ action["signatureChainId"].kind = "string"
                      THEN action["signatureChainId"].str ELSE "0x66eee"
        chainID    == SetString16(SubSeq(Chars[chainIDHex], 3, Len(Chars[chainIDHex])))
        names      == {signatureTypes[i].Name : i \in DOMAIN signatureTypes}
        message    == [name \in names |->
                         IF name \notin DOMAIN action THEN NilPtr
                         ELSE IF IsIntegerType(LastField(signatureTypes, name).Type)
                         THEN ToBigInt(action[name]) ELSE action[name]]
    IN  [Types       |-> ("EIP712Domain" :> EIP712Domain) @@ (primaryType :> signatureTypes),
         PrimaryType |-> primaryType,
         Domain      |-> [Name |-> "HyperliquidSignTransaction", Version |-> "1",
                          ChainId |-> chainID, VerifyingContract |-> ZeroAddress],
         Message     |-> message]

\* UserSignedPayload with the whole action as the message
UserSignedPayloadWholeAction(action, signatureTypes, primaryType) ==
    LET chainIDHex == IF "signatureChainId" \in DOMAIN action
                         /\ action["signatureChainId"].kind = "string"
                      THEN action["signatureChainId"].str ELSE "0x66eee"
        chainID    == SetString16(SubSeq(Chars[chainIDHex], 3, Len(Chars[chainIDHex])))
    IN  [Types       |-> ("EIP712Domain" :> EIP712Domain) @@ (primaryType :> signatureTypes),
         PrimaryType |-> primaryType,
         Domain      |-> [Name |-> "HyperliquidSignTransaction", Version |-> "1",
                          ChainId |-> chainID, VerifyingContract |-> ZeroAddress],
         Message     |-> action]

\* UserSignedPayload: the apitypes.TypedData of a user-signed action.  action is the
\* contents of the caller's map[string]any
UserSignedPayload(action, signatureTypes, primaryType) ==
    LET chainIDHex == IF "signatureChainId" \in DOMAIN action
                         /\ action["signatureChainId"].kind = "string"
                      THEN action["signatureChainId"].str ELSE "0x66eee"
        chainID    == SetString16(SubSeq(Chars[chainIDHex], 3, Len(Chars[chainIDHex])))
        names      == {signatureTypes[i].Name : i \in DOMAIN signatureTypes} \cap DOMAIN action
        message    == [name \in names |->
                         IF IsIntegerType(LastField(signatureTypes, name).Type)
                         THEN ToBigInt(action[name]) ELSE action[name]]
    IN  [Types       |-> ("EIP712Domain" :> EIP712Domain) @@ (primaryType :> signatureTypes),
         PrimaryType |-> primaryType,
         Domain      |-> [Name |-> "HyperliquidSignTransaction", Version |-> "1",
                          ChainId |-> chainID, VerifyingContract |-> ZeroAddress],
         Message     |-> message]

USDSendSignTypes ==
    <<Type("hyperliquidChain", "string"), Type("destination", "string"),
      Type("amount", "string"), Type("time", "uint64")>>

USDClassTransferSignTypes ==
    <<Type("hyperliquidChain", "string"), Type("amount", "string"),
      Type("toPerp", "bool"), Type("nonce", "uint64")>>

MultiSigEnvelopeSignTypes ==
    <<Type("hyperliquidChain", "string"), Type("multiSigActionHash", "bytes32"),
      Type("nonce", "uint64")>>

-----------------------------------------------------------------------------
(* package signing: hashing the envelope and signing *)

\* TypedDataDomain.Map: the domain as the data of the type EIP712Domain
DomainMap(domain) ==
    [name |-> Str(domain.Name), version |-> Str(domain.Version),
     chainId |-> domain.ChainId, verifyingContract |-> Str(domain.VerifyingContract)]

\* the strings of the model that common.IsHexAddress accepts
HexAddressStrings == {ZeroAddress}

\* whether the typed-data encoder takes value for a field of the given type: a string
\* for string, a bool for bool, a hex address string for address, a 32-byte array for
\* bytes32, a big integer (not negative for uint) for an integer type
EncodesAs(type, value) ==
    CASE type = "string"     -> value.kind = "string"
      [] type = "bool"       -> value.kind = "bool"
      [] type = "address"    -> value.kind = "string" /\ value.str \in HexAddressStrings
      [] type = "bytes32"    -> value.kind = "common.Hash"
      [] IsIntegerType(type) -> value.kind = "*big.Int"
                                  /\ (HasPrefix(Chars[type], <<"u">>) => ~value.neg)
      [] OTHER               -> FALSE

\* TypedData.HashStruct(primaryType, data): (hash, err).  It fails when data has more
\* entries than the type has fields, when a field of the type is missing from data and
\* when a value does not encode as the declared type; otherwise the digest of the type
\* and of the values in declaration order
HashStruct(typedData, primaryType, data) ==
    LET fields == typedData.Types[primaryType]
        bad    == {i \in DOMAIN fields :
                     ~(fields[i].Name \in DOMAIN data
                         /\ EncodesAs(fields[i].Type, data[fields[i].Name]))}
    IN  IF Len(fields) < Cardinality(DOMAIN data) \/ bad # {}
        THEN [err |-> TRUE, hash |-> Nil]
        ELSE [err |-> FALSE,
              hash |-> Ptr(Keccak256(<<[typeHash |-> <<primaryType, fields>>]>>
                             \o [i \in DOMAIN fields |->
                                   [word |-> fields[i].Type, of |-> data[fields[i].Name]]]))]

HexChars == <<"0","1","2","3","4","5","6","7","8","9","a","b","c","d","e","f">>

\* common.Bytes2Hex: two lower-case hex digits for every byte
Bytes2Hex(b) ==
    [i \in 1..(2 * Len(b)) |->
        IF i % 2 = 1 THEN HexChars[(b[(i + 1) \div 2] \div 16) + 1]
        ELSE HexChars[(b[i \div 2] % 16) + 1]]

\* the loop of formatHex: drop leading "0" digits while more than one digit is left
RECURSIVE TrimLeadingZeros(_)
TrimLeadingZeros(trimmed) ==
    IF Len(trimmed) > 1 /\ trimmed[1] = "0" THEN TrimLeadingZeros(Tail(trimmed)) ELSE trimmed

\* formatHex with every digit of the 32 bytes kept
formatHexFixedWidth(b) == <<"0", "x">> \o Bytes2Hex(b)

\* formatHex of signTypedData
formatHex(b) == <<"0", "x">> \o TrimLeadingZeros(Bytes2Hex(b))

\* crypto.Sign fails for a key that is not a scalar of the curve
ValidKey(privateKey) == privateKey.D # "0"

\* what the signers return when they return before signing
NoSignature(err) == [err |-> err, sig |-> Nil, digest |-> Nil]

\* signTypedData that returns the formatted bytes next to the error of the curve
signTypedDataBestEffort(privateKey, typedData, sig) ==
    LET domainSeparator == HashStruct(typedData, "EIP712Domain", DomainMap(typedData.Domain))
        typedDataHash   == HashStruct(typedData, typedData.PrimaryType, typedData.Message)
        hash            == Keccak256(<<25, 1, domainSeparator.hash.val, typedDataHash.hash.val>>)
        r               == SubSeq(sig, 1, 32)
        s               == SubSeq(sig, 33, 64)
        v               == IF sig[65] < 27 THEN sig[65] + 27 ELSE sig[65]
    IN  IF domainSeparator.err THEN NoSignature("failed to hash domain")
        ELSE IF typedDataHash.err THEN NoSignature("failed to hash message")
        ELSE [err |-> IF ValidKey(privateKey) THEN "" ELSE "failed to sign",
              sig |-> Ptr([R |-> formatHex(r), S |-> formatHex(s), V |-> v]),
              digest |-> Ptr(hash)]

\* signTypedData with the message hash put before the domain separator
signTypedDataMessageFirst(privateKey, typedData, sig) ==
    LET domainSeparator == HashStruct(typedData, "EIP712Domain", DomainMap(typedData.Domain))
        typedDataHash   == HashStruct(typedData, typedData.PrimaryType, typedData.Message)
        hash            == Keccak256(<<25, 1, typedDataHash.hash.val, domainSeparator.hash.val>>)
        r               == SubSeq(sig, 1, 32)
        s               == SubSeq(sig, 33, 64)
        v               == IF sig[65] < 27 THEN sig[65] + 27 ELSE sig[65]
    IN  IF domainSeparator.err THEN NoSignature("failed to hash domain")
        ELSE IF typedDataHash.err THEN NoSignature("failed to hash message")
        ELSE IF ~ValidKey(privateKey) THEN NoSignature("failed to sign")
        ELSE [err |-> "", sig |-> Ptr([R |-> formatHex(r), S |-> formatHex(s), V |-> v]),
              digest |-> Ptr(hash)]

\* signTypedData with the recovery id returned as the curve gives it
signTypedDataRawV(privateKey, typedData, sig) ==
    LET domainSeparator == HashStruct(typedData, "EIP712Domain", DomainMap(typedData.Domain))
        typedDataHash   == HashStruct(typedData, typedData.PrimaryType, typedData.Message)
        hash            == Keccak256(<<25, 1, domainSeparator.hash.val, typedDataHash.hash.val>>)
    IN  IF domainSeparator.err THEN NoSignature("failed to hash domain")
        ELSE IF typedDataHash.err THEN NoSignature("failed to hash message")
        ELSE IF ~ValidKey(privateKey) THEN NoSignature("failed to sign")
        ELSE [err |-> "",
              sig |-> Ptr([R |-> formatHex(SubSeq(sig, 1, 32)),
                           S |-> formatHex(SubSeq(sig, 33, 64)), V |-> sig[65]]),
              digest |-> Ptr(hash)]

\* signTypedData: (signature, err), and the digest that was handed to crypto.Sign.
\* sig is the 65 bytes R || S || V that crypto.Sign returns for the digest and the key;
\* in the hashed bytes 0x19 0x01 domainSeparator typedDataHash each digest stands for
\* its 32 bytes
signTypedData(privateKey, typedData, sig) ==
    LET domainSeparator == HashStruct(typedData, "EIP712Domain", DomainMap(typedData.Domain))
        typedDataHash   == HashStruct(typedData, typedData.PrimaryType, typedData.Message)
        hash            == Keccak256(<<25, 1, domainSeparator.hash.val, typedDataHash.hash.val>>)
        r               == SubSeq(sig, 1, 32)
        s               == SubSeq(sig, 33, 64)
        v               == IF sig[65] < 27 THEN sig[65] + 27 ELSE sig[65]
    IN  IF domainSeparator.err THEN NoSignature("failed to hash domain")
        ELSE IF typedDataHash.err THEN NoSignature("failed to hash message")
        ELSE IF ~ValidKey(privateKey) THEN NoSignature("failed to sign")
        ELSE [err |-> "", sig |-> Ptr([R |-> formatHex(r), S |-> formatHex(s), V |-> v]),
              digest |-> Ptr(hash)]

\* SignL1Action: what signTypedData returns for the envelope of the phantom agent, or
\* the error of ActionHash; typedData is the envelope that was built
SignL1Action(privateKey, action, vaultAddress, nonce, expiresAfter, isMainnet, iter, sig) ==
    LET hash         == ActionHash(action, vaultAddress, nonce, expiresAfter, iter)
        phantomAgent == ConstructPhantomAgent(hash.hash.val, isMainnet)
        typedData    == L1Payload(phantomAgent)
    IN  IF hash.err # "" THEN [ret |-> NoSignature(hash.err), hash |-> Nil, typedData |-> Nil]
        ELSE [ret |-> signTypedData(privateKey, typedData, sig), hash |-> hash.hash,
              typedData |-> Ptr(typedData)]

\* SignUserSignedAction that leaves the signatureChainId of the caller in place
SignUserSignedActionKeepChain(privateKey, action, signatureTypes, primaryType, isMainnet, sig) ==
    LET withChain == ("hyperliquidChain" :> Str(IF isMainnet THEN "Mainnet" ELSE "Testnet"))
                       @@ action
        typedData == UserSignedPayload(withChain, signatureTypes, primaryType)
    IN  [ret |-> signTypedData(privateKey, typedData, sig), action |-> withChain,
         typedData |-> Ptr(typedData)]

\* SignUserSignedAction: the two keys are written into the caller's map before the
\* envelope is built; action is the caller's map after the call
SignUserSignedAction(privateKey, action, signatureTypes, primaryType, isMainnet, sig) ==
    LET withChain == ("signatureChainId" :> Str("0x66eee"))
                       @@ ("hyperliquidChain" :> Str(IF isMainnet THEN "Mainnet" ELSE "Testnet"))
                       @@ action
        typedData == UserSignedPayload(withChain, signatureTypes, primaryType)
    IN  [ret |-> signTypedData(privateKey, typedData, sig), action |-> withChain,
         typedData |-> Ptr(typedData)]

\* SignMultiSigAction: ActionHash of the action without its type key, then
\* SignUserSignedAction of the envelope; iter is the order in which the encoder visits
\* the keys of the copy
\* SignMultiSigAction hashing the action as given, its type key included
SignMultiSigActionWithTag(privateKey, action, isMainnet, vaultAddress, nonce, expiresAfter, iter, sig) ==
    LET hash     == ActionHash(GoMap(action), vaultAddress, nonce, expiresAfter,
                               <<"type">> \o iter)
        envelope == [multiSigActionHash |-> BytesToHash(hash.hash.val),
                     nonce |-> Int64(Limbs(nonce))]
        signed   == SignUserSignedAction(privateKey, envelope, MultiSigEnvelopeSignTypes,
                                         "HyperliquidTransaction:SendMultiSig", isMainnet, sig)
    IN  IF hash.err # ""
        THEN [ret |-> NoSignature("failed to compute multi-sig action hash"), hash |-> Nil,
              typedData |-> Nil]
        ELSE [ret |-> signed.ret, hash |-> hash.hash, typedData |-> signed.typedData]

SignMultiSigAction(privateKey, action, isMainnet, vaultAddress, nonce, expiresAfter, iter, sig) ==
    LET actionWithoutTag == [k \in DOMAIN action \ {"type"} |-> action[k]]
        hash     == ActionHash(GoMap(actionWithoutTag), vaultAddress, nonce, expiresAfter, iter)
        envelope == [multiSigActionHash |-> BytesToHash(hash.hash.val),
                     nonce |-> Int64(Limbs(nonce))]
        signed   == SignUserSignedAction(privateKey, envelope, MultiSigEnvelopeSignTypes,
                                         "HyperliquidTransaction:SendMultiSig", isMainnet, sig)
    IN  IF hash.err # ""
        THEN [ret |-> NoSignature("failed to compute multi-sig action hash"), hash |-> Nil,
              typedData |-> Nil]
        ELSE [ret |-> signed.ret, hash |-> hash.hash, typedData |-> signed.typedData]

-----------------------------------------------------------------------------
(* float64 and package utils: FloatToWire *)

Precision == 8      \* decimals of the verb %.8f

\* A finite float64 is written neg, int, frac, rem and is the float64 nearest to
\* +-(int + frac / 10^8 + rem / 10^13), with frac < 10^8 and rem < 10^5.
Float(neg, int, frac, rem) ==
    [kind |-> "float64", class |-> "finite", neg |-> neg, int |-> int, frac |-> frac,
     rem |-> rem]
NaN      == [kind |-> "float64", class |-> "NaN"]
Inf(neg) == [kind |-> "float64", class |-> "Inf", neg |-> neg]

\* the decimal digits of a natural number
RECURSIVE Digits(_)
Digits(n) ==
    IF n < 10 THEN <<HexChars[n + 1]>> ELSE Digits(n \div 10) \o <<HexChars[(n % 10) + 1]>>

\* the Precision digits after the decimal point
FracDigits(frac) ==
    [i \in 1..Precision |-> HexChars[((frac \div 10 ^ (Precision - i)) % 10) + 1]]

\* rounding to Precision decimals: to the nearest, an exact tie to the even digit
RoundToPrecision(x) ==
    LET up   == x.rem > 50000 \/ (x.rem = 50000 /\ x.frac % 2 = 1)
        frac == x.frac + (IF up THEN 1 ELSE 0)
    IN  [int |-> x.int + frac \div 10 ^ Precision, frac |-> frac % 10 ^ Precision]

\* fmt.Sprintf("%.8f", x)
Sprintf8f(x) ==
    CASE x.class = "NaN" -> <<"N", "a", "N">>
      [] x.class = "Inf" -> <<IF x.neg THEN "-" ELSE "+", "I", "n", "f">>
      [] OTHER ->
           LET r == RoundToPrecision(x)
           IN  (IF x.neg THEN <<"-">> ELSE <<>>) \o Digits(r.int) \o <<".">>
                 \o FracDigits(r.frac)

\* the number that a sequence of decimal digits writes
RECURSIVE Number(_)
Number(digits) ==
    IF digits = <<>> THEN 0
    ELSE 10 * Number(SubSeq(digits, 1, Len(digits) - 1)) + HexDigits[digits[Len(digits)]]

IsDecimalDigit(c) == c \in {"0", "1", "2", "3", "4", "5", "6", "7", "8", "9"}

\* strconv.ParseFloat(s, 64) for the strings that %.8f writes: (value, err)
ParseFloat(s) ==
    LET neg   == s # <<>> /\ s[1] = "-"
        body  == IF neg THEN Tail(s) ELSE s
        point == {i \in 1..Len(body) : body[i] = "."}
        at    == CHOOSE i \in point : TRUE
        int   == SubSeq(body, 1, at - 1)
        frac  == SubSeq(body, at + 1, Len(body))
    IN  IF s = <<"N", "a", "N">> THEN [val |-> NaN, err |-> FALSE]
        ELSE IF s \in {<<"+", "I", "n", "f">>, <<"-", "I", "n", "f">>}
        THEN [val |-> Inf(s[1] = "-"), err |-> FALSE]
        ELSE IF /\ Cardinality(point) = 1
                /\ int # <<>> /\ Len(frac) = Precision
                /\ \A i \in 1..Len(body) : i \in point \/ IsDecimalDigit(body[i])
        THEN [val |-> Float(neg, Number(int), Number(frac), 0), err |-> FALSE]
        ELSE [val |-> NaN, err |-> TRUE]

\* a < b for the magnitudes of two finite values
LessMagnitude(a, b) ==
    \/ a.int < b.int
    \/ a.int = b.int /\ a.frac < b.frac
    \/ a.int = b.int /\ a.frac = b.frac /\ a.rem < b.rem

\* a - b for the magnitudes of two finite values, b not above a
SubMagnitude(a, b) ==
    LET rem  == a.rem - b.rem
        frac == a.frac - b.frac - (IF rem < 0 THEN 1 ELSE 0)
        int  == a.int - b.int - (IF frac < 0 THEN 1 ELSE 0)
    IN  Float(FALSE, int, frac % 10 ^ Precision, rem % 100000)

\* a + b for the magnitudes of two finite values
AddMagnitude(a, b) ==
    LET rem  == a.rem + b.rem
        frac == a.frac + b.frac + rem \div 100000
    IN  Float(FALSE, a.int + b.int + frac \div 10 ^ Precision, frac % 10 ^ Precision,
              rem % 100000)

\* math.Abs(a - b)
AbsDiff(a, b) ==
    IF a.class = "NaN" \/ b.class = "NaN" THEN NaN
    ELSE IF a.class = "Inf" /\ b.class = "Inf"
    THEN IF a.neg = b.neg THEN NaN ELSE Inf(FALSE)
    ELSE IF a.class = "Inf" \/ b.class = "Inf" THEN Inf(FALSE)
    ELSE IF a.neg # b.neg THEN AddMagnitude(a, b)
    ELSE IF LessMagnitude(a, b) THEN SubMagnitude(b, a)
    ELSE SubMagnitude(a, b)

\* d >= t for a float64 d that is not negative and a finite t: false for NaN
AtLeast(d, t) ==
    CASE d.class = "NaN" -> FALSE
      [] d.class = "Inf" -> TRUE
      [] OTHER           -> ~LessMagnitude(d, t)

\* the literal 1e-12 of the rounding check
Tolerance == Float(FALSE, 0, 0, 10)

\* strings.TrimRight(s, cutset)
RECURSIVE TrimRight(_, _)
TrimRight(s, cutset) ==
    IF s # <<>> /\ s[Len(s)] \in cutset THEN TrimRight(SubSeq(s, 1, Len(s) - 1), cutset)
    ELSE s

\* FloatToWire with only the trailing zeros removed
FloatToWireKeepPoint(x) ==
    LET rounded    == Sprintf8f(x)
        parsedBack == ParseFloat(rounded)
        unsigned   == IF rounded = <<"-", "0", ".", "0", "0", "0", "0", "0", "0", "0", "0">>
                      THEN <<"0", ".", "0", "0", "0", "0", "0", "0", "0", "0">>
                      ELSE rounded
    IN  IF parsedBack.err THEN [str |-> <<>>, err |-> "failed to parse rounded value"]
        ELSE IF AtLeast(AbsDiff(parsedBack.val, x), Tolerance)
        THEN [str |-> <<>>, err |-> "float_to_wire causes rounding"]
        ELSE [str |-> TrimRight(unsigned, {"0"}), err |-> ""]

\* FloatToWire without the check of the rounding
FloatToWireUnchecked(x) ==
    LET rounded    == Sprintf8f(x)
        parsedBack == ParseFloat(rounded)
        unsigned   == IF rounded = <<"-", "0", ".", "0", "0", "0", "0", "0", "0", "0", "0">>
                      THEN <<"0", ".", "0", "0", "0", "0", "0", "0", "0", "0">>
                      ELSE rounded
        normalized == TrimRight(TrimRight(unsigned, {"0"}), {"."})
    IN  IF parsedBack.err THEN [str |-> <<>>, err |-> "failed to parse rounded value"]
        ELSE [str |-> normalized, err |-> ""]

\* FloatToWire: (string, err)
FloatToWire(x) ==
    LET rounded    == Sprintf8f(x)
        parsedBack == ParseFloat(rounded)
        unsigned   == IF rounded = <<"-", "0", ".", "0", "0", "0", "0", "0", "0", "0", "0">>
                      THEN <<"0", ".", "0", "0", "0", "0", "0", "0", "0", "0">>
                      ELSE rounded
        normalized == TrimRight(TrimRight(unsigned, {"0"}), {"."})
    IN  IF parsedBack.err THEN [str |-> <<>>, err |-> "failed to parse rounded value"]
        ELSE IF AtLeast(AbsDiff(parsedBack.val, x), Tolerance)
        THEN [str |-> <<>>, err |-> "float_to_wire causes rounding"]
        ELSE [str |-> normalized, err |-> ""]

-----------------------------------------------------------------------------
(* package signing: order requests to order wires *)

\* types.OrderTypeWire{} and types.OrderWire{}
ZeroOrderTypeWire == Struct("OrderTypeWire", [Limit |-> NilPtr, Trigger |-> NilPtr])
ZeroOrderWire ==
    Struct("OrderWire",
           [Asset |-> GoInt(0), IsBuy |-> Bool(FALSE), LimitPx |-> Str(<<>>), Sz |-> Str(<<>>),
            ReduceOnly |-> Bool(FALSE), OrderType |-> ZeroOrderTypeWire, Cloid |-> NilPtr])

\* OrderTypeToWire: (wire, err)
OrderTypeToWire(orderType) ==
    IF orderType.Limit # NilPtr
    THEN [wire |-> Struct("OrderTypeWire", [Limit |-> orderType.Limit, Trigger |-> NilPtr]),
          err |-> ""]
    ELSE IF orderType.Trigger # NilPtr
    THEN LET triggerPx == FloatToWire(orderType.Trigger.TriggerPx)
         IN  IF triggerPx.err # ""
             THEN [wire |-> ZeroOrderTypeWire, err |-> "invalid trigger price"]
             ELSE [wire |-> Struct("OrderTypeWire",
                                   [Limit |-> NilPtr,
                                    Trigger |-> Struct("TriggerOrderTypeWire",
                                                       [TriggerPx |-> Str(triggerPx.str),
                                                        IsMarket |-> Bool(orderType.Trigger.IsMarket),
                                                        Tpsl |-> Str(orderType.Trigger.Tpsl)])]),
                   err |-> ""]
    ELSE [wire |-> ZeroOrderTypeWire,
          err |-> "invalid order type: must have either limit or trigger"]

\* OrderRequestToOrderWire that goes on after a size that does not convert
OrderRequestToOrderWireAnySize(order, asset) ==
    LET limitPx       == FloatToWire(order.LimitPx)
        sz            == FloatToWire(order.Sz)
        orderTypeWire == OrderTypeToWire(order.OrderType)
    IN  IF limitPx.err # "" THEN [wire |-> ZeroOrderWire, err |-> "invalid limit price"]
        ELSE IF orderTypeWire.err # "" THEN [wire |-> ZeroOrderWire, err |-> orderTypeWire.err]
        ELSE [wire |-> Struct("OrderWire",
                              [Asset |-> GoInt(asset), IsBuy |-> Bool(order.IsBuy),
                               LimitPx |-> Str(limitPx.str), Sz |-> Str(sz.str),
                               ReduceOnly |-> Bool(order.ReduceOnly),
                               OrderType |-> orderTypeWire.wire,
                               Cloid |-> IF order.Cloid.isNil THEN NilPtr
                                         ELSE Str(order.Cloid.val.raw)]),
              err |-> ""]

\* OrderRequestToOrderWire: (wire, err)
OrderRequestToOrderWire(order, asset) ==
    LET limitPx       == FloatToWire(order.LimitPx)
        sz            == FloatToWire(order.Sz)
        orderTypeWire == OrderTypeToWire(order.OrderType)
    IN  IF limitPx.err # "" THEN [wire |-> ZeroOrderWire, err |-> "invalid limit price"]
        ELSE IF sz.err # "" THEN [wire |-> ZeroOrderWire, err |-> "invalid size"]
        ELSE IF orderTypeWire.err # "" THEN [wire |-> ZeroOrderWire, err |-> orderTypeWire.err]
        ELSE [wire |-> Struct("OrderWire",
                              [Asset |-> GoInt(asset), IsBuy |-> Bool(order.IsBuy),
                               LimitPx |-> Str(limitPx.str), Sz |-> Str(sz.str),
                               ReduceOnly |-> Bool(order.ReduceOnly),
                               OrderType |-> orderTypeWire.wire,
                               Cloid |-> IF order.Cloid.isNil THEN NilPtr
                                         ELSE Str(order.Cloid.val.raw)]),
              err |-> ""]

-----------------------------------------------------------------------------
(* package client: the exchange endpoint *)

\* JSON values: json.RawMessage of the reply.  JAbsent is the empty RawMessage of an
\* envelope without the field response.
JAbsent    == [json |-> "absent"]
JNull      == [json |-> "null"]
JString(s) == [json |-> "string", str |-> s]
JNumber(n) == [json |-> "number", num |-> n]
JObject(o) == [json |-> "object", fields |-> o]

\* json.Unmarshal(data, &s) for a string s: (s, err).  null leaves s as it is.
UnmarshalString(data) ==
    CASE data.json = "string" -> [str |-> data.str, err |-> FALSE]
      [] data.json = "null"   -> [str |-> "", err |-> FALSE]
      [] OTHER                -> [str |-> "", err |-> TRUE]

\* json.Unmarshal(data, result) for a pointer to a struct of string fields, the fields
\* named by their json tags: (the struct after the call, err).  A member with a value
\* of another type is skipped and reported, the other members are still stored.
Unmarshal(data, result) ==
    CASE data.json = "object" ->
           LET known == DOMAIN data.fields \cap DOMAIN result
               good  == {k \in known : data.fields[k].json = "string"}
               null  == {k \in known : data.fields[k].json = "null"}
           IN  [val |-> [k \in DOMAIN result |->
                           IF k \in good THEN data.fields[k].str ELSE result[k]],
                err |-> known # good \cup null]
      [] data.json = "null" -> [val |-> result, err |-> FALSE]
      [] OTHER              -> [val |-> result, err |-> TRUE]

\* errors of package client
Errorf(text, msg) == [error |-> text, msg |-> msg]
NoError == [error |-> ""]

\* handleError: the *APIError for an HTTP status of 400 and above
handleError(statusCode, body) ==
    LET isObj  == body.json = "object"
        member(k) == IF isObj /\ k \in DOMAIN body.fields /\ body.fields[k].json = "string"
                     THEN body.fields[k].str ELSE ""
        parsed == isObj /\ \A k \in DOMAIN body.fields \cap {"code", "msg"} :
                              body.fields[k].json \in {"string", "null"}
    IN  [error |-> "API error", StatusCode |-> statusCode,
         Code |-> IF parsed /\ member("code") # "" THEN Ptr(member("code")) ELSE Nil,
         Message |-> IF parsed /\ member("msg") # "" THEN JString(member("msg")) ELSE body]

\* exchangePost that decodes the response whatever the status says
exchangePostAnyStatus(payload, result, reply) ==
    IF reply.transport # "" THEN [err |-> Errorf(reply.transport, ""), result |-> result]
    ELSE IF ~reply.isJson THEN [err |-> Errorf("failed to parse response", ""), result |-> result]
    ELSE IF reply.StatusCode >= 400
    THEN [err |-> handleError(reply.StatusCode, reply.respData.Response), result |-> result]
    ELSE IF result.isNil THEN [err |-> NoError, result |-> result]
    ELSE LET decoded == Unmarshal(reply.respData.Response, result.val)
         IN  [err |-> IF decoded.err THEN Errorf("failed to parse response", "") ELSE NoError,
              result |-> Ptr(decoded.val)]

\* exchangePost: (err, what result points to after the call).  reply is what the HTTP
\* round trip gives: a transport error, or a status code and a body.
exchangePost(payload, result, reply) ==
    IF reply.transport # "" THEN [err |-> Errorf(reply.transport, ""), result |-> result]
    ELSE IF ~reply.isJson THEN [err |-> Errorf("failed to parse response", ""), result |-> result]
    ELSE IF reply.StatusCode >= 400
    THEN [err |-> handleError(reply.StatusCode, reply.respData.Response), result |-> result]
    ELSE IF reply.respData.Status # "ok"
    THEN LET errMsg == UnmarshalString(reply.respData.Response)
         IN  [err |-> IF errMsg.err
                      THEN Errorf("API error (status): failed to parse error message",
                                  reply.respData.Status)
                      ELSE Errorf("API error: ", errMsg.str),
              result |-> result]
    ELSE IF result.isNil THEN [err |-> NoError, result |-> result]
    ELSE LET decoded == Unmarshal(reply.respData.Response, result.val)
         IN  [err |-> IF decoded.err THEN Errorf("failed to parse response", "") ELSE NoError,
              result |-> Ptr(decoded.val)]

\* ApiResponse.DecodeResponse: (err, what v points to after the call)
DecodeResponse(r, v) ==
    IF r.Status # "ok"
    THEN LET errMsg == UnmarshalString(r.Response)
         IN  [err |-> IF errMsg.err THEN Errorf("failed to decode error message", "")
                      ELSE Errorf("", errMsg.str),
              result |-> v]
    ELSE LET decoded == Unmarshal(r.Response, v.val)
         IN  [err |-> IF decoded.err THEN Errorf("failed to decode response data", "")
                      ELSE NoError,
              result |-> Ptr(decoded.val)]

\* Exchange.postAction: the payload sent and what exchangePost returns
postAction(e, action, signature, nonce, result, reply) ==
    LET vaultAddr == IF action.type \notin {Str("usdClassTransfer"), Str("sendAsset")}
                     THEN e.vaultAddress ELSE Nil
        payload   == [action |-> action, nonce |-> nonce, signature |-> signature,
                      vaultAddress |-> vaultAddr]
                     @@ (IF e.expiresAfter.isNil THEN <<>>
                         ELSE [expiresAfter |-> e.expiresAfter.val])
        posted    == exchangePost(payload, result, reply)
    IN  [err |-> posted.err, result |-> posted.result, payload |-> payload]

\* fmt.Sprintf("%f", x) for a finite x that is no tie of the seventh decimal
Sprintf6f(x) ==
    LET cut  == x.frac % 100
        up   == cut > 50 \/ (cut = 50 /\ x.rem > 0)
        frac == x.frac \div 100 + (IF up THEN 1 ELSE 0)
    IN  (IF x.neg THEN <<"-">> ELSE <<>>) \o Digits(x.int + frac \div 1000000) \o <<".">>
          \o [i \in 1..6 |-> HexChars[(((frac % 1000000) \div 10 ^ (6 - i)) % 10) + 1]]

\* types.DefaultResponse{}, its field named by its json tag
DefaultResponse == [type |-> ""]

\* Exchange.USDTransfer: (result, err), with the action and the envelope it signed
USDTransfer(e, amount, destination, timestamp, sig, reply) ==
    LET action == [type |-> Str("usdSend"), destination |-> Str(destination),
                   amount |-> Str(Sprintf6f(amount)), time |-> Int64(timestamp)]
        signed == SignUserSignedAction(e.wallet, action, USDSendSignTypes,
                                       "HyperliquidTransaction:UsdSend", e.isMainnet, sig)
        posted == postAction(e, signed.action, signed.ret.sig, timestamp,
                             Ptr(DefaultResponse), reply)
    IN  IF signed.ret.err # ""
        THEN [result |-> Nil, err |-> Errorf("failed to sign USD transfer: ", signed.ret.err),
              typedData |-> signed.typedData, payload |-> Nil]
        ELSE IF posted.err # NoError
        THEN [result |-> Nil, err |-> posted.err, typedData |-> signed.typedData,
              payload |-> Ptr(posted.payload)]
        ELSE [result |-> posted.result, err |-> NoError, typedData |-> signed.typedData,
              payload |-> Ptr(posted.payload)]

-----------------------------------------------------------------------------
(* Arguments of the modelled calls *)

MaxOrders == 1      \* orders in one order action

LimitWire(tif) ==
    Struct("OrderTypeWire",
           [Limit |-> Struct("LimitOrderType", [Tif |-> Str(tif)]), Trigger |-> NilPtr])

TriggerWire(px, isMarket, tpsl) ==
    Struct("OrderTypeWire",
           [Limit |-> NilPtr,
            Trigger |-> Struct("TriggerOrderTypeWire",
                               [TriggerPx |-> Str(px), IsMarket |-> Bool(isMarket),
                                Tpsl |-> Str(tpsl)])])

MkOrderWire(asset, isBuy, px, sz, reduceOnly, orderType, cloid) ==
    Struct("OrderWire",
           [Asset |-> GoInt(asset), IsBuy |-> Bool(isBuy), LimitPx |-> Str(px), Sz |-> Str(sz),
            ReduceOnly |-> Bool(reduceOnly), OrderType |-> orderType, Cloid |-> cloid])

TestCloid == Str("0x00000000000000000000000000000001")

OrderWires ==
    {MkOrderWire(1, TRUE, "100", "100", FALSE, LimitWire("Gtc"), NilPtr),
     MkOrderWire(1, TRUE, "100", "100", FALSE, LimitWire("Gtc"), TestCloid),
     MkOrderWire(4, TRUE, "1670.1", "0.0147", FALSE, LimitWire("Ioc"), NilPtr),
     MkOrderWire(300, FALSE, "100", "0.0147", TRUE, TriggerWire("1670.1", TRUE, "tp"), NilPtr)}

OrderWireLists == UNION {[1..n -> OrderWires] : n \in 1..MaxOrders}

TestBuilder ==
    Struct("BuilderInfo",
           [B |-> Str("0x1719884eb866cb12b2287399b15f7db5e7d775ea"), F |-> GoInt(10)])

Builders == {Nil, Ptr(TestBuilder)}

\* order actions without a builder, and the order action of the tests with a builder
OrderActions ==
    {OrderWiresToOrderAction(ws, Nil) : ws \in OrderWireLists}
    \cup {OrderWiresToOrderAction(
             <<MkOrderWire(1, TRUE, "100", "100", FALSE, LimitWire("Gtc"), NilPtr)>>, b) :
           b \in Builders}

\* {"type": "dummy", "num": 100000000000}
DummyAction == GoMap([type |-> Str("dummy"), num |-> Uint64(<<0, 23, 18550, 59392>>)])

TestOrderAction ==
    OrderWiresToOrderAction(
        <<MkOrderWire(1, TRUE, "100", "100", FALSE, LimitWire("Gtc"), NilPtr)>>, Nil)

ModifyAction ==
    Struct("ModifyWire",
           [Oid |-> GoInt(70000),
            Order |-> MkOrderWire(1, TRUE, "100", "100", FALSE, LimitWire("Gtc"), TestCloid)])

VaultTest   == <<"0","x","1","7","1","9","8","8","4","e","b","8","6","6","c","b","1","2","b","2","2",
                 "8","7","3","9","9","b","1","5","f","7","d","b","5","e","7","d","7","7","5","e","a">>
VaultShort  == <<"0","x","1","7","1","9">>
VaultOdd    == <<"0","x","1","7","1","9","8","8","4","e","b","8","6","6","c","b","1","2","b","2","2",
                 "8","7","3","9","9","b","1","5","f","7","d","b","5","e","7","d","7","7","5","e">>
VaultNonHex == <<"0","x","1","7","1","9","8","8","4","e","b","8","6","6","c","b","1","2","b","2","2",
                 "8","7","3","9","9","b","1","5","f","7","d","b","5","e","7","d","7","7","5","z","z">>

\* nine bytes: a zero byte and the big-endian bytes of the expiry 1677777607
VaultNine   == <<"0","x","0","0","0","0","0","0","0","0","0","0","6","4","0","0","d","a","c","7">>

\* no bytes at all
VaultEmpty  == <<"0","x">>

VaultStrings == {VaultTest, VaultShort, VaultNine, VaultOdd, VaultNonHex}

Nonces       == {0, 1677777606, -1}
ExpiresVals  == {0, 1677777607}

\* what a caller of ActionHash holds: the action, the nonce, a vault address and an
\* expiry; each call passes the vault address and the expiry or leaves them out
HashArgs ==
    [action : {DummyAction, ModifyAction}, nonce : Nonces,
     vault : VaultStrings, expires : ExpiresVals]
    \cup
    [action : OrderActions \cup {Chan}, nonce : {0},
     vault : {VaultTest}, expires : {1677777607}]
    \cup
    [action : {DummyAction}, nonce : {0, 1677777606},
     vault : {VaultNine, VaultTest}, expires : {1677777607}, other : {VaultEmpty, VaultShort}]

\* the vault addresses a caller holds
VaultsOf(a) == {a.vault} \cup (IF "other" \in DOMAIN a THEN {a.other} ELSE {})

\* the actions for which the call before the last one is kept for comparison
Repeated == {DummyAction, ModifyAction}

\* an *ecdsa.PrivateKey by its scalar D: the key of the tests, and the scalar zero
TestKey == [D |-> "0123456789012345678901234567890123456789012345678901234567890123"]

PrivateKeys == {TestKey, [D |-> "0"]}

\* the last thirty bytes of the modelled curve scalars, zero bytes among them
ScalarTail == [i \in 1..30 |-> IF i % 5 = 0 THEN 0 ELSE (7 * i) % 256]

\* 32-byte R and S of a curve signature: no leading zero, a leading zero nibble, a
\* leading zero byte and nibble, a leading zero byte alone, and (the boundary of
\* formatHex) all zero
Scalars ==
    {<<221, 10>> \o ScalarTail, <<13, 0>> \o ScalarTail, <<0, 13>> \o ScalarTail,
     <<0, 208>> \o ScalarTail, [i \in 1..32 |-> 0]}

\* what crypto.Sign can return: R || S || V with V the recovery id 0 or 1
Signatures == {r \o s \o <<v>> : r \in Scalars, s \in Scalars, v \in {0, 1}}

TestSignature == (<<221, 10>> \o ScalarTail) \o (<<0, 13>> \o ScalarTail) \o <<0>>

\* what a caller of SignL1Action and SignMultiSigAction holds, and sig, the 65 bytes
\* that crypto.Sign returns to this caller
SignArgs ==
    [action : {DummyAction, Chan}, nonce : {1677777606},
     vault : {VaultTest, VaultShort, VaultNonHex}, expires : {1677777607},
     privateKey : PrivateKeys, sig : {TestSignature}]

TestDestination == Str("0x5e9ee1089755c3435139848e47e6635505d5a13a")

\* the time field of a usdSend action: 1687816341423 as int64 and as uint64, an int,
\* a uint32, a *big.Int, a negative int64 and a value that is no integer
TimeValues ==
    {Int64(<<0, 392, 63921, 34735>>), Uint64(<<0, 392, 63921, 34735>>), GoInt(1000),
     GoUint32(1000), BigInt(FALSE, <<0, 0, 0, 7>>), Int64(Limbs(-1)), Bool(TRUE)}

\* the signatureChainId the caller's action carries: a string, or a value that is no string
ChainIdValues == {Str("0xa4b1"), GoInt(1)}

\* usdSend actions as Exchange.USDTransfer builds them, also without the destination
\* and with a signatureChainId key
UsdSendActions ==
    LET base(t) == [type |-> Str("usdSend"), amount |-> Str("100"), time |-> t]
        dest(a) == {a, ("destination" :> TestDestination) @@ a}
        chain(a) == {a} \cup {("signatureChainId" :> c) @@ a : c \in ChainIdValues}
    IN  UNION {UNION {chain(b) : b \in dest(base(t))} : t \in TimeValues}

\* usdClassTransfer actions as Exchange.USDClassTransfer builds them
UsdClassTransferActions ==
    {[type |-> Str("usdClassTransfer"), amount |-> Str("100"), toPerp |-> Bool(p),
      nonce |-> Int64(<<0, 392, 63921, 34735>>)] : p \in BOOLEAN}

TestUsdSend ==
    [type |-> Str("usdSend"), destination |-> TestDestination, amount |-> Str("100"),
     time |-> Int64(<<0, 392, 63921, 34735>>)]

\* what a caller of UserSignedPayload and SignUserSignedAction holds, and sig, the 65
\* bytes that crypto.Sign returns to this caller
UserArgs ==
    [action : {TestUsdSend}, signatureTypes : {USDSendSignTypes},
     primaryType : {"HyperliquidTransaction:UsdSend"}, privateKey : {TestKey},
     sig : Signatures]
    \cup
    [action : UsdSendActions, signatureTypes : {USDSendSignTypes},
     primaryType : {"HyperliquidTransaction:UsdSend"}, privateKey : PrivateKeys,
     sig : {TestSignature}]
    \cup
    [action : UsdClassTransferActions \cup {[type |-> Str("usdSend"), amount |-> Str("100")]},
     signatureTypes : {USDClassTransferSignTypes},
     primaryType : {"HyperliquidTransaction:UsdClassTransfer"}, privateKey : PrivateKeys,
     sig : {TestSignature}]

-----------------------------------------------------------------------------
(* The calls *)

\* the float64 values handed to FloatToWire.  Digits after the eighth decimal are given
\* to values below 1000 only, and none at a distance of exactly 10^-12 from a multiple of
\* 10^-8: there the distance of the float64 from the decimal written here decides the
\* comparison of the rounding check.
WireFloats ==
    {Float(neg, int, frac, rem) :
        neg \in BOOLEAN, int \in {0, 1, 100},
        frac \in {0, 1, 10000000, 12345678, 50000000, 99999999},
        rem \in {0, 1, 9, 11, 49999, 50001, 99989, 99991, 99999}}
    \cup {Float(neg, 1670, frac, 0) : neg \in BOOLEAN, frac \in {0, 10000000, 12345678}}
    \cup {Float(FALSE, 0, 195312, 50000), Float(FALSE, 0, 585937, 50000)}
    \cup {NaN, Inf(FALSE), Inf(TRUE)}

FloatArgs == [x : WireFloats]

\* the order types of a request: a limit, a trigger, both, neither
TriggerOrderType(px) == [TriggerPx |-> px, IsMarket |-> TRUE, Tpsl |-> "tp"]
OrderTypes ==
    [Limit   : {NilPtr, Struct("LimitOrderType", [Tif |-> Str("Gtc")])},
     Trigger : {NilPtr, TriggerOrderType(Float(FALSE, 1670, 10000000, 0)),
                TriggerOrderType(Float(FALSE, 0, 12345678, 11))}]

\* the order requests handed to OrderRequestToOrderWire, with the asset of the coin
OrderRequests ==
    [Coin : {"ETH"}, IsBuy : BOOLEAN,
     Sz : {Float(FALSE, 100, 0, 0), Float(FALSE, 0, 1, 49999)},
     LimitPx : {Float(FALSE, 100, 0, 0), Float(FALSE, 1670, 10000000, 0),
                Float(FALSE, 0, 12345678, 11)},
     OrderType : OrderTypes, ReduceOnly : {FALSE},
     Cloid : {Nil, Ptr([raw |-> "0x00000000000000000000000000000001"])}]

OrderArgs == [order : OrderRequests, asset : {1}]

\* a destination address as the tests write it and with capital hex digits
LowerDestination ==
    <<"0", "x", "5", "e", "9", "e", "e", "1", "0", "8", "9", "7", "5", "5", "c", "3", "4", "3", "5", "1", "3", "9", "8", "4", "8", "e", "4", "7", "e", "6", "6", "3", "5", "5", "0", "5", "d", "5", "a", "1", "3", "a">>
MixedDestination ==
    <<"0", "x", "5", "e", "9", "E", "E", "1", "0", "8", "9", "7", "5", "5", "c", "3", "4", "3", "5", "1", "3", "9", "8", "4", "8", "e", "4", "7", "e", "6", "6", "3", "5", "5", "0", "5", "D", "5", "A", "1", "3", "A">>

\* what the HTTP round trip of exchangePost can give
Responses ==
    {JAbsent, JNull, JString("Insufficient margin"),
     JObject([type |-> JString("default")]),
     JObject([type |-> JNumber(1)]),
     JObject([type |-> JString("order"), data |-> JNumber(1)]),
     JObject([code |-> JString("429"), msg |-> JString("rate limited")])}
Replies ==
    [transport : {"request failed", "failed to read response"}]
    \cup [transport : {""}, isJson : {FALSE}, StatusCode : {200, 502}]
    \cup [transport : {""}, isJson : {TRUE}, StatusCode : {200, 500},
          respData : [Status : {"ok", "err", ""}, Response : Responses]]

\* an Exchange, the arguments of USDTransfer with the time read from the clock, the
\* result a direct caller of exchangePost passes, and the reply of the HTTP round trip
ExchangeArgs ==
    [e : [wallet : PrivateKeys, isMainnet : BOOLEAN, vaultAddress : {Nil},
          expiresAfter : {Ptr(1677777607)}],
     destination : {LowerDestination, MixedDestination},
     amount : {Float(FALSE, 1, 0, 0), Float(FALSE, 0, 12345678, 0)},
     timestamp : {<<0, 392, 63921, 34735>>},
     sig : {TestSignature},
     result : {Nil, Ptr([type |-> "old", data |-> "old"])},
     reply : Replies]

Init ==
    /\ args \in HashArgs \cup SignArgs \cup UserArgs
    /\ last = NoCall
    /\ prev = NoCall
    /\ NoWebSocket

CallActionHash ==
    /\ "vault" \in DOMAIN args
    /\ \E withVault \in BOOLEAN, withExpires \in BOOLEAN :
         \E iter \in MapRange(args.action), vault \in VaultsOf(args) :
           LET vaultAddress == IF withVault THEN Ptr(vault) ELSE Nil
               expiresAfter == IF withExpires THEN Ptr(args.expires) ELSE Nil
           IN  /\ last' = [op |-> "ActionHash", action |-> args.action,
                           vaultAddress |-> vaultAddress, nonce |-> args.nonce,
                           expiresAfter |-> expiresAfter, iter |-> iter,
                           ret |-> ActionHash(args.action, vaultAddress, args.nonce,
                                              expiresAfter, iter)]
               /\ prev' = IF last.op = "ActionHash" /\ args.action \in Repeated
                             /\ "privateKey" \notin DOMAIN args
                          THEN last ELSE NoCall
               /\ UNCHANGED <<args, client, net, pc>>

CallConstructPhantomAgent ==
    /\ "privateKey" \in DOMAIN args
    /\ last.op = "ActionHash" /\ last.ret.err = ""
    /\ \E isMainnet \in BOOLEAN :
         last' = [op |-> "ConstructPhantomAgent", hash |-> last.ret.hash.val,
                  isMainnet |-> isMainnet,
                  ret |-> ConstructPhantomAgent(last.ret.hash.val, isMainnet)]
    /\ prev' = NoCall
    /\ UNCHANGED <<args, client, net, pc>>

CallL1Payload ==
    /\ last.op = "ConstructPhantomAgent"
    /\ last' = [op |-> "L1Payload", phantomAgent |-> last.ret, ret |-> L1Payload(last.ret)]
    /\ prev' = NoCall
    /\ UNCHANGED <<args, client, net, pc>>

CallSignL1Action ==
    /\ "vault" \in DOMAIN args /\ "privateKey" \in DOMAIN args
    /\ \E withVault \in BOOLEAN, withExpires \in BOOLEAN, isMainnet \in BOOLEAN :
         \E iter \in MapRange(args.action) :
           LET sig == args.sig
               vaultAddress == IF withVault THEN Ptr(args.vault) ELSE Nil
               expiresAfter == IF withExpires THEN Ptr(args.expires) ELSE Nil
               out == SignL1Action(args.privateKey, args.action, vaultAddress, args.nonce,
                                   expiresAfter, isMainnet, iter, sig)
           IN  last' = [op |-> "SignL1Action", privateKey |-> args.privateKey,
                        action |-> args.action, vaultAddress |-> vaultAddress,
                        nonce |-> args.nonce, expiresAfter |-> expiresAfter,
                        isMainnet |-> isMainnet, iter |-> iter,
                        sig |-> IF out.ret.err = "" THEN sig ELSE <<>>,
                        ret |-> out.ret, hash |-> out.hash, typedData |-> out.typedData]
    /\ prev' = NoCall
    /\ UNCHANGED <<args, client, net, pc>>

CallSignMultiSigAction ==
    /\ "vault" \in DOMAIN args /\ "privateKey" \in DOMAIN args
    /\ args.action.kind = "map"
    /\ \E withVault \in BOOLEAN, withExpires \in BOOLEAN, isMainnet \in BOOLEAN :
         \E iter \in Perms(DOMAIN args.action.m \ {"type"}) :
           LET sig == args.sig
               vaultAddress == IF withVault THEN Ptr(args.vault) ELSE Nil
               expiresAfter == IF withExpires THEN Ptr(args.expires) ELSE Nil
               out == SignMultiSigAction(args.privateKey, args.action.m, isMainnet,
                                         vaultAddress, args.nonce, expiresAfter, iter, sig)
           IN  last' = [op |-> "SignMultiSigAction", privateKey |-> args.privateKey,
                        action |-> args.action, vaultAddress |-> vaultAddress,
                        nonce |-> args.nonce, expiresAfter |-> expiresAfter,
                        isMainnet |-> isMainnet, iter |-> iter,
                        sig |-> IF out.ret.err = "" THEN sig ELSE <<>>,
                        ret |-> out.ret, hash |-> out.hash, typedData |-> out.typedData]
    /\ prev' = NoCall
    /\ UNCHANGED <<args, client, net, pc>>

CallUserSignedPayload ==
    /\ "signatureTypes" \in DOMAIN args
    /\ last' = [op |-> "UserSignedPayload", action |-> args.action,
                signatureTypes |-> args.signatureTypes, primaryType |-> args.primaryType,
                ret |-> UserSignedPayload(args.action, args.signatureTypes, args.primaryType)]
    /\ prev' = NoCall
    /\ UNCHANGED <<args, client, net, pc>>

CallSignUserSignedAction ==
    /\ "signatureTypes" \in DOMAIN args
    /\ \E isMainnet \in BOOLEAN :
         LET sig == args.sig
             out == SignUserSignedAction(args.privateKey, args.action, args.signatureTypes,
                                             args.primaryType, isMainnet, sig)
         IN  last' = [op |-> "SignUserSignedAction", privateKey |-> args.privateKey,
                      action |-> args.action, signatureTypes |-> args.signatureTypes,
                      primaryType |-> args.primaryType, isMainnet |-> isMainnet,
                      sig |-> IF out.ret.err = "" THEN sig ELSE <<>>,
                      ret |-> out.ret, actionAfter |-> out.action,
                      typedData |-> out.typedData]
    /\ prev' = NoCall
    /\ UNCHANGED <<args, client, net, pc>>

CallFloatToWire ==
    /\ "x" \in DOMAIN args
    /\ last' = [op |-> "FloatToWire", x |-> args.x, ret |-> FloatToWire(args.x)]
    /\ prev' = NoCall
    /\ UNCHANGED <<args, client, net, pc>>

CallOrderTypeToWire ==
    /\ "order" \in DOMAIN args
    /\ last' = [op |-> "OrderTypeToWire", orderType |-> args.order.OrderType,
                ret |-> OrderTypeToWire(args.order.OrderType)]
    /\ prev' = NoCall
    /\ UNCHANGED <<args, client, net, pc>>

CallOrderRequestToOrderWire ==
    /\ "order" \in DOMAIN args
    /\ last' = [op |-> "OrderRequestToOrderWire", order |-> args.order, asset |-> args.asset,
                ret |-> OrderRequestToOrderWire(args.order, args.asset)]
    /\ prev' = NoCall
    /\ UNCHANGED <<args, client, net, pc>>

CallUSDTransfer ==
    /\ "e" \in DOMAIN args
    /\ LET reply == args.reply
           out == USDTransfer(args.e, args.amount, args.destination, args.timestamp,
                              args.sig, reply)
       IN  last' = [op |-> "USDTransfer", destination |-> args.destination,
                      amount |-> args.amount,
                      reply |-> IF out.payload.isNil THEN Nil ELSE Ptr(reply),
                      result |-> out.result, err |-> out.err, typedData |-> out.typedData,
                      payload |-> out.payload]
    /\ prev' = NoCall
    /\ UNCHANGED <<args, client, net, pc>>

CallExchangePost ==
    /\ "e" \in DOMAIN args
    /\ LET reply == args.reply
           out == exchangePost(Nil, args.result, reply)
       IN  last' = [op |-> "exchangePost", reply |-> reply, result |-> args.result,
                      resultAfter |-> out.result, err |-> out.err]
    /\ prev' = NoCall
    /\ UNCHANGED <<args, client, net, pc>>

CallDecodeResponse ==
    /\ "e" \in DOMAIN args /\ ~args.result.isNil
    /\ "respData" \in DOMAIN args.reply
    /\ LET out == DecodeResponse(args.reply.respData, args.result)
       IN  last' = [op |-> "DecodeResponse", reply |-> args.reply,
                    result |-> args.result, resultAfter |-> out.result, err |-> out.err]
    /\ prev' = NoCall
    /\ UNCHANGED <<args, client, net, pc>>

Next ==
    \/ CallActionHash
    \/ CallConstructPhantomAgent
    \/ CallL1Payload
    \/ CallSignL1Action
    \/ CallSignMultiSigAction
    \/ CallUserSignedPayload
    \/ CallSignUserSignedAction

Spec == Init /\ [][Next]_vars

\* the callers of the wire conversions
InitWire ==
    /\ args \in FloatArgs \cup OrderArgs
    /\ last = NoCall
    /\ prev = NoCall
    /\ NoWebSocket

NextWire ==
    \/ CallFloatToWire
    \/ CallOrderTypeToWire
    \/ CallOrderRequestToOrderWire

SpecWire == InitWire /\ [][NextWire]_vars

\* the callers of the exchange endpoint
InitExchange ==
    /\ args \in ExchangeArgs
    /\ last = NoCall
    /\ prev = NoCall
    /\ NoWebSocket

NextExchange ==
    \/ CallUSDTransfer
    \/ CallExchangePost
    \/ CallDecodeResponse

SpecExchange == InitExchange /\ [][NextExchange]_vars

-----------------------------------------------------------------------------
(* package ws: Client *)

MaxDials  == 2      \* calls of dialer.Dial
MaxCloses == 2      \* calls of Close made by the user of the client

\* the first 20 bytes of the data of a subscription response
SubscribePrefix ==
    <<"{", "\"", "m", "e", "t", "h", "o", "d", "\"", ":", "\"", "s", "u", "b", "s", "c", "r", "i", "b", "e">>

\* what conn.ReadMessage can return besides an error: text is the first byte of a message
\* that is no JSON object, msg the wsMessage that json.Unmarshal parses from the bytes
\* (Nil when they do not parse), Data.raw the bytes of the member data and Data.value
\* what they decode to as a T (Nil when they do not)
Established == [kind |-> "established", first |-> "W", msg |-> Nil]
Malformed   == [kind |-> "malformed", first |-> "{", msg |-> Nil]
SubscriptionResponse ==
    [kind |-> "subscriptionResponse", first |-> "{",
     msg |-> Ptr([Channel |-> "subscriptionResponse",
                  Data |-> [raw |-> <<"{", "\"", "m", "e", "t", "h", "o", "d", "\"", ":", "\"", "s", "u", "b", "s", "c", "r", "i", "b", "e", "\"", ",", "\"", "s", "u", "b", "s", "c", "r", "i", "p", "t", "i", "o", "n", "\"", ":", "{", "\"", "t", "y", "p", "e", "\"", ":", "\"", "t", "r", "a", "d", "e", "s", "\"", ",", "\"", "c", "o", "i", "n", "\"", ":", "\"", "B", "T", "C", "\"", "}", "}">>,
                            value |-> Nil]])]
Pong ==
    [kind |-> "pong", first |-> "{",
     msg |-> Ptr([Channel |-> "pong", Data |-> [raw |-> <<>>, value |-> Nil]])]
Trades ==
    [kind |-> "data", first |-> "{",
     msg |-> Ptr([Channel |-> "trades",
                  Data |-> [raw |-> <<"[", "{", "\"", "c", "o", "i", "n", "\"", ":", "\"", "B", "T", "C", "\"", "}", "]">>,
                            value |-> Ptr("trades")]])]
BadTrades ==
    [kind |-> "bad data", first |-> "{",
     msg |-> Ptr([Channel |-> "trades",
                  Data |-> [raw |-> <<"{", "\"", "c", "o", "i", "n", "\"", ":", "1", "}">>, value |-> Nil]])]
ServerMessages == {Established, Malformed, SubscriptionResponse, Pong, Trades, BadTrades}

\* newClient
NewClient == [conn |-> Nil, isConnected |-> FALSE, ctx |-> Nil, cancel |-> Nil]

\* c.cancel(), when it is set
Cancel(c, n) ==
    IF c.cancel.isNil THEN n ELSE [n EXCEPT !.cancelled = @ \cup {c.cancel.val}]

\* conn.Close(): the error of closing a connection that is closed already
ConnClose(n, conn) ==
    [net |-> [n EXCEPT !.closeCalls[conn] = @ + 1],
     err |-> IF n.closeCalls[conn] > 0 THEN "use of closed network connection" ELSE ""]

\* Client.Close: the client and the network after the call, the error returned, and
\* whether conn.Close was called
ClientClose(c, n) ==
    LET n1 == [Cancel(c, n) EXCEPT !.closes = @ + 1]
    IN  IF c.conn.isNil THEN [client |-> c, net |-> n1, err |-> "", closed |-> FALSE]
        ELSE LET r == ConnClose(n1, c.conn.val)
             IN  [client |-> [c EXCEPT !.isConnected = FALSE], net |-> r.net,
                  err |-> r.err, closed |-> TRUE]

\* Client.start with one subscription: dialOk and writeOk are what the network does to
\* dialer.Dial and to the write of the subscription.  spawn is the ping goroutine started.
ClientStart(c, n, dialOk, writeOk) ==
    LET id   == n.contexts + 1
        c1   == [c EXCEPT !.ctx = Ptr(id), !.cancel = Ptr(id)]
        n1   == [n EXCEPT !.contexts = id, !.dials = @ + 1]
        conn == Len(n.closeCalls) + 1
        c2   == [c1 EXCEPT !.conn = Ptr(conn), !.isConnected = TRUE]
        n2   == [n1 EXCEPT !.closeCalls = Append(@, 0)]
    IN  IF c.isConnected
        THEN [client |-> c, net |-> n, err |-> "client already started", spawn |-> Nil]
        ELSE IF ~dialOk
        THEN [client |-> c1, net |-> Cancel(c1, n1), err |-> "failed to connect to websocket",
              spawn |-> Nil]
        ELSE IF ~writeOk
        THEN [client |-> [c2 EXCEPT !.isConnected = FALSE],
              net |-> Cancel(c2, ConnClose(n2, conn).net),
              err |-> "failed to send subscription", spawn |-> Nil]
        ELSE [client |-> c2, net |-> [n2 EXCEPT !.subscriptions = @ + 1], err |-> "",
              spawn |-> Ptr(id)]

\* one pass of the loop of Client.Read over the message rawMsg: "continue", or the
\* data or the error that Read returns
ReadLoop(rawMsg) ==
    IF rawMsg.first # "{" THEN [next |-> "continue"]
    ELSE IF rawMsg.msg.isNil THEN [next |-> "continue"]
    ELSE LET Data == rawMsg.msg.val.Data
         IN  IF Len(Data.raw) >= 20 /\ SubSeq(Data.raw, 1, 20) = SubscribePrefix
             THEN [next |-> "continue"]
             ELSE IF Data.raw = <<>> \/ Data.value.isNil
             THEN [next |-> "return", data |-> Nil, err |-> "failed to unmarshal data"]
             ELSE [next |-> "return", data |-> Data.value, err |-> ""]


\* the goroutine that calls Read and Close is between two calls
Idle == [at |-> "idle"]

\* <-c.ctx.Done() can be taken
CtxDone == ~client.ctx.isNil /\ client.ctx.val \in net.cancelled

\* the connection conn has had Close called on it
IsClosed(n, conn) == n.closeCalls[conn] > 0

\* Client.Read up to its loop: start the client when it is not connected; a failure
\* of start is returned after the deferred Close
CallRead ==
    /\ "subscription" \in DOMAIN args
    /\ pc.reader = Idle
    /\ IF ~client.isConnected \/ client.conn.isNil
       THEN /\ net.dials < MaxDials
            /\ \E dialOk, writeOk \in BOOLEAN :
                 LET s == ClientStart(client, net, dialOk, writeOk)
                     r == ClientClose(s.client, s.net)
                 IN  /\ dialOk \/ writeOk
                     /\ IF s.err # ""
                        THEN /\ client' = r.client
                             /\ net' = [r.net EXCEPT !.failed = TRUE]
                             /\ pc' = pc
                             /\ last' = [op |-> "Read", err |-> "failed to start client",
                                         cause |-> s.err, data |-> Nil, skipped |-> {},
                                         closed |-> r.closed, closeErr |-> r.err]
                        ELSE /\ client' = s.client
                             /\ net' = s.net
                             /\ pc' = [reader |-> [at |-> "ReadMessage", conn |-> s.client.conn.val,
                                                   skipped |-> {}],
                                       pingers |-> pc.pingers \cup {s.spawn.val}]
                             /\ UNCHANGED last
       ELSE /\ pc' = [pc EXCEPT !.reader = [at |-> "ReadMessage", conn |-> client.conn.val,
                                            skipped |-> {}]]
            /\ UNCHANGED <<client, net, last>>
    /\ UNCHANGED <<args, prev>>

\* Client.Read, one pass of its loop: conn.ReadMessage fails, always so on a closed
\* connection, or gives one message of the server; Read returns through the deferred Close
\* when it returns an error
ReadMessage ==
    /\ "subscription" \in DOMAIN args
    /\ pc.reader.at = "ReadMessage"
    /\ \/ LET r == ClientClose(client, net)
          IN  /\ client' = r.client
              /\ net' = [r.net EXCEPT !.failed = TRUE]
              /\ pc' = [pc EXCEPT !.reader = Idle]
              /\ last' = [op |-> "Read", err |-> "read error", cause |-> "ReadMessage",
                          data |-> Nil, skipped |-> pc.reader.skipped,
                          closed |-> r.closed, closeErr |-> r.err]
       \/ /\ ~IsClosed(net, pc.reader.conn)
          /\ \E rawMsg \in ServerMessages :
               LET l == ReadLoop(rawMsg)
                   r == ClientClose(client, net)
               IN  IF l.next = "continue"
                   THEN /\ pc' = [pc EXCEPT !.reader.skipped = @ \cup {rawMsg.kind}]
                        /\ UNCHANGED <<client, net, last>>
                   ELSE IF l.err # ""
                   THEN /\ client' = r.client
                        /\ net' = [r.net EXCEPT !.failed = TRUE]
                        /\ pc' = [pc EXCEPT !.reader = Idle]
                        /\ last' = [op |-> "Read", err |-> l.err, cause |-> rawMsg.kind,
                                    data |-> Nil, skipped |-> pc.reader.skipped,
                                    closed |-> r.closed, closeErr |-> r.err]
                   ELSE /\ pc' = [pc EXCEPT !.reader = Idle]
                        /\ last' = [op |-> "Read", err |-> "", cause |-> rawMsg.kind,
                                    data |-> l.data, skipped |-> pc.reader.skipped,
                                    closed |-> FALSE, closeErr |-> ""]
                        /\ UNCHANGED <<client, net>>
    /\ UNCHANGED <<args, prev>>

\* Client.Close called by the user of the client
CallClose ==
    /\ "subscription" \in DOMAIN args
    /\ pc.reader = Idle
    /\ net.userCloses < MaxCloses
    /\ LET r == ClientClose(client, net)
       IN  /\ client' = r.client
           /\ net' = [r.net EXCEPT !.userCloses = @ + 1]
           /\ last' = [op |-> "Close", err |-> r.err, closed |-> r.closed,
                       nth |-> r.net.closes,
                       again |-> ~client.conn.isNil /\ IsClosed(net, client.conn.val)]
    /\ UNCHANGED <<args, prev, pc>>

\* Client.pingRoutine, one pass of its loop in the goroutine g: the context is done, or
\* the ticker fires and the ping is written; the routine reads c.conn and c.isConnected
\* without a lock, so it can see isConnected as it was before the last write to it
PingRoutine ==
    /\ "subscription" \in DOMAIN args
    /\ \E g \in pc.pingers :
         \/ /\ CtxDone
            /\ pc' = [pc EXCEPT !.pingers = @ \ {g}]
            /\ UNCHANGED net
         \/ \E isConnected \in {client.isConnected, ~client.conn.isNil}, writeOk \in BOOLEAN :
              IF ~client.conn.isNil /\ isConnected
              THEN IF writeOk /\ ~IsClosed(net, client.conn.val)
                   THEN /\ net' = [net EXCEPT !.pings = IF @ < MaxDials THEN @ + 1 ELSE @]
                        /\ UNCHANGED pc
                   ELSE /\ pc' = [pc EXCEPT !.pingers = @ \ {g}]
                        /\ UNCHANGED net
              ELSE UNCHANGED <<net, pc>>
    /\ UNCHANGED <<args, last, prev, client>>

InitClient ==
    /\ args = [subscription |-> "trades"]
    /\ last = NoCall
    /\ prev = NoCall
    /\ client = NewClient
    /\ net = [dials |-> 0, contexts |-> 0, cancelled |-> {}, closeCalls |-> <<>>,
              subscriptions |-> 0, closes |-> 0, userCloses |-> 0, pings |-> 0,
              failed |-> FALSE]
    /\ pc = [reader |-> Idle, pingers |-> {}]

NextClient == CallRead \/ ReadMessage \/ CallClose \/ PingRoutine

SpecClient == InitClient /\ [][NextClient]_vars

-----------------------------------------------------------------------------
(* package ws: PostOnlyClient *)

MaxRequests == 2    \* calls of Request that get to write

\* the goroutines that call Start and Request, the first of them calls Start
Users == {"u1", "u2"}

\* NewPostOnlyClient; writeMu is the goroutine that holds the lock, "" when it is free.
\* respWaitersMu is taken and released inside single steps and has no field.
NewPostOnlyClient ==
    [conn |-> Nil, id |-> 0, respWaiters |-> [i \in {} |-> Nil], ctx |-> Nil, cancel |-> Nil,
     writeMu |-> ""]

\* make(chan *PostResponse, 1) for the waiter of the request id
MakeChan(id) == [ID |-> id, msgs |-> <<>>, closes |-> 0]

\* ch <- m: a panic on a closed channel.  The receiver is the caller of Request, who
\* can have taken an earlier message, so a second send is a second message.
ChanSend(n, ch, m) ==
    IF n.chans[ch].closes > 0 THEN [n EXCEPT !.panics = @ + 1]
    ELSE [n EXCEPT !.chans[ch].msgs = Append(@, m)]

\* close(ch): a panic on a closed channel
ChanClose(n, ch) ==
    IF n.chans[ch].closes > 0 THEN [n EXCEPT !.panics = @ + 1]
    ELSE [n EXCEPT !.chans[ch].closes = @ + 1]

\* the lookup of Read with the waiter left in the map
TakeWaiterKeeping(c, id) ==
    IF id \notin DOMAIN c.respWaiters
    THEN [ok |-> FALSE, waiter |-> Nil, respWaiters |-> c.respWaiters]
    ELSE [ok |-> TRUE, waiter |-> c.respWaiters[id], respWaiters |-> c.respWaiters]

\* Read under respWaitersMu: the waiter registered under id, taken out of the map
TakeWaiter(c, id) ==
    IF id \notin DOMAIN c.respWaiters
    THEN [ok |-> FALSE, waiter |-> Nil, respWaiters |-> c.respWaiters]
    ELSE [ok |-> TRUE, waiter |-> c.respWaiters[id],
          respWaiters |-> [i \in DOMAIN c.respWaiters \ {id} |-> c.respWaiters[i]]]

\* PostOnlyClient.Close: cancel the context and close the connection when they are set
PostOnlyClose(c, n) ==
    LET n1 == IF c.cancel.isNil THEN n ELSE [n EXCEPT !.cancelled = TRUE]
    IN  IF c.conn.isNil THEN n1 ELSE [n1 EXCEPT !.closeCalls = @ + 1]

\* the deferred function of pingRoutine after c.Close(), under respWaitersMu: every
\* registered waiter is sent the "websocket closed" response and its channel is closed
RECURSIVE CloseWaiters(_, _, _)
CloseWaiters(c, n, ids) ==
    IF ids = {} THEN n
    ELSE LET id == CHOOSE i \in ids : TRUE
             ch == c.respWaiters[id].ch
         IN  CloseWaiters(c, ChanClose(ChanSend(n, ch, [id |-> 0, err |-> "websocket closed"]),
                                       ch),
                          ids \ {id})

\* Start up to the dial: the context is made
StartContext ==
    /\ "post" \in DOMAIN args
    /\ pc.user["u1"] = "new"
    /\ client' = [client EXCEPT !.ctx = Ptr(1), !.cancel = Ptr(1)]
    /\ pc' = [pc EXCEPT !.user["u1"] = "dial"]
    /\ UNCHANGED <<args, last, prev, net>>

\* Start from the dial on: a failed dial cancels the context; after a dial the
\* connection is set and the goroutines of pingRoutine and Read are started
StartDial ==
    /\ "post" \in DOMAIN args
    /\ pc.user["u1"] = "dial"
    /\ \E dialOk \in BOOLEAN :
         IF dialOk
         THEN /\ client' = [client EXCEPT !.conn = Ptr(1)]
              /\ pc' = [pc EXCEPT !.user["u1"] = "idle", !.ping = [at |-> "select"],
                                  !.read = [at |-> "loop"]]
              /\ last' = [op |-> "Start", err |-> ""]
              /\ UNCHANGED net
         ELSE /\ net' = [net EXCEPT !.cancelled = TRUE]
              /\ pc' = [pc EXCEPT !.user["u1"] = "idle"]
              /\ last' = [op |-> "Start", err |-> "failed to connect to websocket"]
              /\ UNCHANGED client
    /\ UNCHANGED <<args, prev>>

\* Request up to the write: take writeMu, return an error when there is no connection,
\* else count the id up
RequestBegin ==
    /\ "post" \in DOMAIN args
    /\ \E u \in Users :
         /\ pc.user[u] \in {"new", "idle"}
         /\ client.writeMu = ""
         /\ client.id < MaxRequests
         /\ IF client.conn.isNil
            THEN /\ last' = [op |-> "Request", user |-> u, err |-> "client not connected",
                             waiter |-> Nil]
                 /\ UNCHANGED <<client, pc>>
            ELSE /\ client' = [client EXCEPT !.writeMu = u, !.id = @ + 1]
                 /\ pc' = [pc EXCEPT !.user[u] = "write"]
                 /\ UNCHANGED last
    /\ UNCHANGED <<args, prev, net>>

\* Request: c.conn.WriteJSON(msg) starts to write on the connection
RequestWrite ==
    /\ "post" \in DOMAIN args
    /\ \E u \in Users :
         /\ pc.user[u] = "write"
         /\ net' = [net EXCEPT !.writers = @ \cup {u}]
         /\ pc' = [pc EXCEPT !.user[u] = "writing"]
    /\ UNCHANGED <<args, last, prev, client>>

\* Request: c.conn.WriteJSON(msg) returns, with an error on a closed connection, and
\* Request returns the error and gives writeMu back
RequestWritten ==
    /\ "post" \in DOMAIN args
    /\ \E u \in Users :
         /\ pc.user[u] = "writing"
         /\ IF net.closeCalls > 0
            THEN /\ net' = [net EXCEPT !.writers = @ \ {u}]
                 /\ client' = [client EXCEPT !.writeMu = ""]
                 /\ pc' = [pc EXCEPT !.user[u] = "idle"]
                 /\ last' = [op |-> "Request", user |-> u, err |-> "write", waiter |-> Nil]
            ELSE /\ net' = [net EXCEPT !.writers = @ \ {u}, !.written = @ \cup {client.id}]
                 /\ pc' = [pc EXCEPT !.user[u] = "register"]
                 /\ UNCHANGED <<client, last>>
    /\ UNCHANGED <<args, prev>>

\* Request after the write: make the waiter, register it under c.id and return it
RequestRegister ==
    /\ "post" \in DOMAIN args
    /\ \E u \in Users :
         /\ pc.user[u] = "register"
         /\ LET waiter == [ID |-> client.id, ch |-> Len(net.chans) + 1]
            IN  /\ net' = [net EXCEPT !.chans = Append(@, MakeChan(client.id))]
                /\ client' = [client EXCEPT
                                !.respWaiters = (client.id :> waiter) @@ @,
                                !.writeMu = ""]
                /\ pc' = [pc EXCEPT !.user[u] = "idle"]
                /\ last' = [op |-> "Request", user |-> u, err |-> "", waiter |-> Ptr(waiter)]
    /\ UNCHANGED <<args, prev>>

\* the server answers a request it has received, once
ServerRespond ==
    /\ "post" \in DOMAIN args
    /\ net.closeCalls = 0
    /\ \E id \in net.written \ net.answered :
         net' = [net EXCEPT !.answered = @ \cup {id}, !.wire = @ \cup {id}]
    /\ UNCHANGED <<args, last, prev, client, pc>>

\* Read, one pass of its loop up to the send: return when the context is done or
\* ReadMessage fails, else look the waiter of the response up
PostOnlyRead ==
    /\ "post" \in DOMAIN args
    /\ pc.read.at = "loop"
    /\ IF net.cancelled \/ net.closeCalls > 0
       THEN /\ pc' = [pc EXCEPT !.read = [at |-> "done"]]
            /\ UNCHANGED <<client, net>>
       ELSE \E id \in net.wire :
              LET t == TakeWaiter(client, id)
              IN  /\ client' = [client EXCEPT !.respWaiters = t.respWaiters]
                  /\ IF t.ok
                     THEN /\ net' = [net EXCEPT !.wire = @ \ {id}]
                          /\ pc' = [pc EXCEPT !.read = [at |-> "send", waiter |-> t.waiter,
                                                        resp |-> [id |-> id, err |-> ""]]]
                     ELSE /\ net' = [net EXCEPT !.wire = @ \ {id}, !.dropped = @ \cup {id}]
                          /\ UNCHANGED pc
    /\ UNCHANGED <<args, last, prev>>

\* Read: waiter.ch <- resp; close(waiter.ch)
PostOnlyReadSend ==
    /\ "post" \in DOMAIN args
    /\ pc.read.at = "send"
    /\ net' = ChanClose(ChanSend(net, pc.read.waiter.ch, pc.read.resp), pc.read.waiter.ch)
    /\ pc' = [pc EXCEPT !.read = [at |-> "loop"]]
    /\ UNCHANGED <<args, last, prev, client>>

\* pingRoutine at its select: the context is done, or the ticker fires and
\* conn.WriteJSON(pingMsg) starts to write on the connection
PostOnlyPing ==
    /\ "post" \in DOMAIN args
    /\ pc.ping.at = "select"
    /\ IF net.cancelled
       THEN /\ pc' = [pc EXCEPT !.ping = [at |-> "close"]]
            /\ UNCHANGED net
       ELSE /\ net' = [net EXCEPT !.writers = @ \cup {"ping"}]
            /\ pc' = [pc EXCEPT !.ping = [at |-> "writing"]]
    /\ UNCHANGED <<args, last, prev, client>>

\* pingRoutine: conn.WriteJSON(pingMsg) returns; an error, always so on a closed
\* connection, ends the routine
PostOnlyPingWritten ==
    /\ "post" \in DOMAIN args
    /\ pc.ping.at = "writing"
    /\ \E writeOk \in BOOLEAN :
         /\ net' = [net EXCEPT !.writers = @ \ {"ping"}]
         /\ pc' = [pc EXCEPT !.ping = [at |-> IF writeOk /\ net.closeCalls = 0
                                               THEN "select" ELSE "close"]]
    /\ UNCHANGED <<args, last, prev, client>>

\* the deferred function of pingRoutine: c.Close()
PostOnlyPingClose ==
    /\ "post" \in DOMAIN args
    /\ pc.ping.at = "close"
    /\ net' = PostOnlyClose(client, net)
    /\ pc' = [pc EXCEPT !.ping = [at |-> "deliver"]]
    /\ UNCHANGED <<args, last, prev, client>>

\* the deferred function of pingRoutine after c.Close()
PostOnlyPingDeliver ==
    /\ "post" \in DOMAIN args
    /\ pc.ping.at = "deliver"
    /\ net' = CloseWaiters(client, net, DOMAIN client.respWaiters)
    /\ client' = [client EXCEPT !.respWaiters = [i \in {} |-> Nil]]
    /\ pc' = [pc EXCEPT !.ping = [at |-> "done"]]
    /\ UNCHANGED <<args, last, prev>>

\* Close called by the user of the client
CallPostOnlyClose ==
    /\ "post" \in DOMAIN args
    /\ net.userCloses < MaxCloses
    /\ net' = [PostOnlyClose(client, net) EXCEPT !.userCloses = @ + 1]
    /\ last' = [op |-> "Close", err |-> IF net.closeCalls > 0 THEN "close" ELSE ""]
    /\ UNCHANGED <<args, prev, client, pc>>

InitPost ==
    /\ args = [post |-> "PostOnlyClient"]
    /\ last = NoCall
    /\ prev = NoCall
    /\ client = NewPostOnlyClient
    /\ net = [closeCalls |-> 0, cancelled |-> FALSE, written |-> {}, answered |-> {},
              wire |-> {}, dropped |-> {}, chans |-> <<>>, writers |-> {}, panics |-> 0,
              userCloses |-> 0]
    /\ pc = [user |-> [u \in Users |-> IF u = "u1" THEN "new" ELSE "idle"],
             ping |-> [at |-> "none"], read |-> [at |-> "none"]]

\* the steps that a started goroutine takes on its own
PostRuns ==
    \/ StartDial \/ RequestWrite \/ RequestWritten \/ RequestRegister
    \/ ServerRespond
    \/ PostOnlyRead \/ PostOnlyReadSend
    \/ PostOnlyPing \/ PostOnlyPingWritten \/ PostOnlyPingClose \/ PostOnlyPingDeliver

NextPost == StartContext \/ RequestBegin \/ CallPostOnlyClose \/ PostRuns

SpecPost == InitPost /\ [][NextPost]_vars

\* every goroutine that can take a step takes one in the end, and the server answers
SpecPostFair ==
    /\ SpecPost
    /\ WF_vars(StartDial) /\ WF_vars(RequestWrite) /\ WF_vars(RequestWritten)
    /\ WF_vars(RequestRegister) /\ WF_vars(ServerRespond)
    /\ WF_vars(PostOnlyRead) /\ WF_vars(PostOnlyReadSend)
    /\ WF_vars(PostOnlyPing) /\ WF_vars(PostOnlyPingWritten)
    /\ WF_vars(PostOnlyPingClose) /\ WF_vars(PostOnlyPingDeliver)

-----------------------------------------------------------------------------
(* Properties of the action hash *)

IsHash(c) == c.op = "ActionHash"
HashOk(c) == IsHash(c) /\ c.ret.err = ""
HashedBytes(c) == c.ret.hash.val.keccak256

\* a 20-byte hex address: forty hex digits after an optional 0x
WellFormedAddress(a) ==
    LET h == TrimPrefix0x(a)
    IN  Len(h) = 40 /\ \A i \in 1..Len(h) : IsHexDigit(h[i])

\* the raw bytes of the well-formed addresses of the model
WantAddressBytes ==
    VaultTest :> <<23, 25, 136, 78, 184, 102, 203, 18, 178, 40, 115, 153, 177, 95,
                   125, 181, 231, 215, 117, 234>>

RECURSIVE ShiftRight8(_, _)
ShiftRight8(n, k) == IF k = 0 THEN n ELSE ShiftRight8(n \div 256, k - 1)

\* the 64-bit two's complement of n, most significant byte first
WantBigEndian(n) == [j \in 1..8 |-> ShiftRight8(n, 8 - j) % 256]

\* C1: ActionHash returns Keccak-256 of the encoding of the action, then the nonce as
\* 8 big-endian bytes, then the vault section (0x00, or 0x01 and the 20 address bytes),
\* then, only when an expiry is given, 0x00 and the expiry as 8 big-endian bytes.
C1_ActionHashLayout ==
    (HashOk(last) /\ (last.vaultAddress.isNil \/ WellFormedAddress(last.vaultAddress.val)))
    => LET vaultSection   == IF last.vaultAddress.isNil THEN <<0>>
                             ELSE <<1>> \o WantAddressBytes[last.vaultAddress.val]
           expiresSection == IF last.expiresAfter.isNil THEN <<>>
                             ELSE <<0>> \o WantBigEndian(last.expiresAfter.val)
       IN  last.ret.hash =
             Ptr(Keccak256(Marshal(last.action, last.iter).data \o WantBigEndian(last.nonce)
                             \o vaultSection \o expiresSection))

C1_Witness ==
    /\ HashOk(last)
    /\ ~last.vaultAddress.isNil /\ WellFormedAddress(last.vaultAddress.val)
    /\ ~last.expiresAfter.isNil /\ last.expiresAfter.val # 0
    /\ last.nonce < 0

\* C2: two calls of ActionHash with the same action, vault address, nonce and expiry
\* return the same result.
C2_SameArgumentsSameDigest ==
    (IsHash(last) /\ IsHash(prev)
       /\ last.action = prev.action /\ last.nonce = prev.nonce
       /\ last.vaultAddress = prev.vaultAddress /\ last.expiresAfter = prev.expiresAfter)
    => last.ret = prev.ret

\* C9: a vault address that is not a well-formed 20-byte hex address makes ActionHash,
\* SignL1Action and SignMultiSigAction return an error and no digest or signature.
C9_MalformedVaultRejected ==
    (last.op \in {"ActionHash", "SignL1Action", "SignMultiSigAction"}
       /\ ~last.vaultAddress.isNil /\ ~WellFormedAddress(last.vaultAddress.val))
    => /\ last.ret.err # ""
       /\ last.op = "ActionHash" => last.ret.hash = Nil
       /\ last.op # "ActionHash" => last.ret.sig = Nil

\* which of the two optional arguments a call passed
Presence(c) == <<~c.vaultAddress.isNil, ~c.expiresAfter.isNil>>

\* C10: for one action and nonce, two calls that differ in whether the vault address is
\* passed or in whether the expiry is passed hash different byte strings and return
\* different digests.
C10_FourCombinationsDiffer ==
    (HashOk(last) /\ HashOk(prev) /\ Presence(last) # Presence(prev)
       /\ (Presence(last)[1] /\ Presence(prev)[1] => last.vaultAddress = prev.vaultAddress))
    => (HashedBytes(last) # HashedBytes(prev) /\ last.ret.hash # prev.ret.hash)

C10_Witness ==
    /\ HashOk(last) /\ HashOk(prev)
    /\ Presence(last) = <<FALSE, TRUE>> /\ Presence(prev) = <<TRUE, FALSE>>
    /\ Len(HashedBytes(last)) = Len(HashedBytes(prev))

\* the vault address bytes and the expiry that a successful call hashed
OptionalInputs(c) ==
    <<IF c.vaultAddress.isNil THEN Nil ELSE Ptr(AddressToBytes(c.vaultAddress.val).bytes),
      c.expiresAfter>>

\* C27: for one action and nonce, two successful calls of ActionHash that differ in
\* whether a vault address is given, in the bytes of the vault address, in whether an
\* expiry is given or in the expiry never hash the same byte string.
C27_HashedBytesDetermineInputs ==
    (HashOk(last) /\ HashOk(prev) /\ last.action = prev.action /\ last.nonce = prev.nonce
       /\ OptionalInputs(last) # OptionalInputs(prev))
    => HashedBytes(last) # HashedBytes(prev)

\* the bytes of the encoded action at the head of the hashed byte string
EncodedAction(c) ==
    SubSeq(HashedBytes(c), 1, Len(Marshal(c.action, c.iter).data))

\* the encoding of v with every struct keyed by its declared wire names (the names of
\* the json tags: a, b, p, s, r, t, c; limit, trigger; tif; triggerPx, isMarket, tpsl;
\* oid, order; b, f), in declaration order, omitempty fields dropped when nil
WireNameEncoding(v, iter) == Encode(v, iter, "json")

\* C7: every wire record inside a hashed action is encoded as a map keyed by its
\* declared wire names in declaration order, never by Go field names, and the key c is
\* left out when the order has no client order id.
C7_WireRecordsKeyedByWireNames ==
    HashOk(last) => EncodedAction(last) = WireNameEncoding(last.action, last.iter)

\* the keys of an order action in the order OrderWiresToOrderAction inserts them
InsertionOrder(action) ==
    IF "builder" \in DOMAIN action.m THEN <<"type", "orders", "grouping", "builder">>
    ELSE <<"type", "orders", "grouping">>

\* C8: the order action built by OrderWiresToOrderAction is encoded with its keys in
\* the order type, orders, grouping, then builder when a builder is given, on every call.
C8_OrderActionInsertionOrder ==
    (HashOk(last) /\ last.action \in OrderActions)
    => EncodedAction(last) = Marshal(last.action, InsertionOrder(last.action)).data

-----------------------------------------------------------------------------
(* Properties of the envelopes and of the signature *)

IsSigner(c) == c.op \in {"SignL1Action", "SignUserSignedAction", "SignMultiSigAction"}
Signed(c)   == IsSigner(c) /\ c.ret.err = ""

\* the field names a sign-type table declares
Declared(signatureTypes) == {signatureTypes[i].Name : i \in DOMAIN signatureTypes}

\* the keys of message are the keys of action that the table declares: no other key of
\* the action, all declared fields when the action has them all, and no signatureChainId
OnlyDeclared(message, action, signatureTypes) ==
    /\ DOMAIN message \subseteq Declared(signatureTypes)
    /\ DOMAIN message = Declared(signatureTypes) \cap DOMAIN action
    /\ (Declared(signatureTypes) \subseteq DOMAIN action
          => DOMAIN message = Declared(signatureTypes))
    /\ "signatureChainId" \notin DOMAIN message

\* C3: the Message built by UserSignedPayload, and the Message signed by
\* SignUserSignedAction, holds the fields that the sign-type table declares and no other
\* key of the action; signatureChainId is never in Message.
C3_MessageHoldsDeclaredFieldsOnly ==
    /\ last.op = "UserSignedPayload"
         => OnlyDeclared(last.ret.Message, last.action, last.signatureTypes)
    /\ last.op = "SignUserSignedAction"
         => OnlyDeclared(last.typedData.val.Message, last.actionAfter, last.signatureTypes)

C3_Witness ==
    /\ last.op = "SignUserSignedAction" /\ last.ret.err = ""
    /\ {"type", "signatureChainId"} \subseteq DOMAIN last.action
    /\ DOMAIN last.typedData.val.Message = Declared(last.signatureTypes)

\* the 32 bytes that a hex rendering stands for: the digits after 0x, padded on the
\* left with zero digits to 64 digits
FromHex(str) ==
    LET digits == SubSeq(str, 3, Len(str))
        pad    == [i \in 1..(64 - Len(digits)) |-> "0"] \o digits
    IN  [i \in 1..32 |-> 16 * HexDigits[pad[2 * i - 1]] + HexDigits[pad[2 * i]]]

\* str is 0x and the shortest hex rendering of the 32 bytes read as an integer
MinimalHex(str, bytes) ==
    /\ Len(str) >= 3 /\ Len(str) <= 66
    /\ str[1] = "0" /\ str[2] = "x"
    /\ \A i \in 3..Len(str) : str[i] \in Range(HexChars)
    /\ (Len(str) > 3 => str[3] # "0")
    /\ ((\A i \in 1..32 : bytes[i] = 0) => str = <<"0", "x", "0">>)
    /\ FromHex(str) = bytes

\* C4: in every signature a signer returns, R and S are 0x and the minimal hex of the
\* 32-byte value: no leading zero digit, one digit 0 for zero, and the string parses
\* back to the integer of the 32 bytes.
C4_MinimalHexOfRAndS ==
    Signed(last) => /\ MinimalHex(last.ret.sig.val.R, SubSeq(last.sig, 1, 32))
                    /\ MinimalHex(last.ret.sig.val.S, SubSeq(last.sig, 33, 64))

C4_Witness ==
    /\ Signed(last)
    /\ last.sig[1] = 0 /\ last.sig[2] = 13
    /\ last.sig[33] = 13
    /\ Len(last.ret.sig.val.R) = 63 /\ Len(last.ret.sig.val.S) = 65

\* C5: in every signature a signer returns, V is 27 or 28, the recovery id of the
\* curve signature plus 27.
C5_VIs27Or28 ==
    Signed(last) => /\ last.ret.sig.val.V \in {27, 28}
                    /\ last.ret.sig.val.V = last.sig[65] + 27

C5_Witness ==
    Signed(last) /\ last.sig[65] = 1 /\ last.ret.sig.val.V = 28

\* agent is the phantom agent of hash: the two fields source and connectionId, source
\* "a" for mainnet and "b" otherwise, connectionId a common.Hash of the bytes of hash
PhantomAgentOf(agent, hash, isMainnet) ==
    /\ DOMAIN agent = {"source", "connectionId"}
    /\ agent.source = Str(IF isMainnet THEN "a" ELSE "b")
    /\ agent.connectionId.kind = "common.Hash"
    /\ Len(agent.connectionId.bytes) = 32
    /\ \A i \in 1..32 : agent.connectionId.bytes[i] = ByteAt(hash, i)

\* C6: ConstructPhantomAgent returns the two fields source ("a" for mainnet, else "b")
\* and connectionId, the hash as a fixed 32-byte value equal byte for byte to the hash
\* passed in; the agents for mainnet and for testnet differ in source only.
C6_PhantomAgentTwoFields ==
    /\ last.op = "ConstructPhantomAgent"
         => /\ PhantomAgentOf(last.ret, last.hash, last.isMainnet)
            /\ LET other == ConstructPhantomAgent(last.hash, ~last.isMainnet)
               IN  /\ DOMAIN other = DOMAIN last.ret
                   /\ {k \in DOMAIN other : other[k] # last.ret[k]} = {"source"}
    /\ (last.op = "SignL1Action" /\ ~last.typedData.isNil)
         => PhantomAgentOf(last.typedData.val.Message, last.hash.val, last.isMainnet)

C6_Witness ==
    /\ last.op = "ConstructPhantomAgent" /\ last.isMainnet
    /\ last.ret.source = Str("a")

-----------------------------------------------------------------------------
(* Properties of the two envelopes *)

\* the domain of an exchange action
WantL1Domain ==
    [Name |-> "Exchange", Version |-> "1",
     ChainId |-> [kind |-> "*big.Int", neg |-> FALSE, mag |-> <<0, 0, 0, 1337>>],
     VerifyingContract |-> "0x0000000000000000000000000000000000000000"]

\* typedData is the envelope of an exchange action over phantomAgent
L1EnvelopeOf(typedData, phantomAgent) ==
    /\ typedData.PrimaryType = "Agent"
    /\ typedData.Types["Agent"] = <<[Name |-> "source", Type |-> "string"],
                                    [Name |-> "connectionId", Type |-> "bytes32"]>>
    /\ typedData.Domain = WantL1Domain
    /\ typedData.Message = phantomAgent
    /\ DOMAIN typedData.Message = {"source", "connectionId"}

\* C11: L1Payload builds an envelope with primary type Agent declared as source: string,
\* connectionId: bytes32, the Domain Exchange / 1 / 1337 / zero address, and a Message
\* that holds the two fields of the phantom agent and nothing else.
C11_L1PayloadEnvelope ==
    /\ last.op = "L1Payload" => L1EnvelopeOf(last.ret, last.phantomAgent)
    /\ (last.op = "SignL1Action" /\ ~last.typedData.isNil)
         => L1EnvelopeOf(last.typedData.val,
                         ConstructPhantomAgent(last.hash.val, last.isMainnet))

C11_Witness ==
    /\ last.op = "L1Payload"
    /\ last.phantomAgent.source = Str("b")
    /\ last.ret.Message.connectionId.kind = "common.Hash"

\* the domain of a user-signed action with the given chain id
WantUserDomain(chainId) ==
    [Name |-> "HyperliquidSignTransaction", Version |-> "1",
     ChainId |-> [kind |-> "*big.Int", neg |-> FALSE, mag |-> chainId],
     VerifyingContract |-> "0x0000000000000000000000000000000000000000"]

\* the numbers that the chain-id strings of the model stand for: 0x66eee is 421614
\* (6 * 65536 + 28398) and 0xa4b1 is 42161
WantChainId == ("0x66eee" :> <<0, 0, 6, 28398>>) @@ ("0xa4b1" :> <<0, 0, 0, 42161>>)

\* C12: SignUserSignedAction signs over the Domain HyperliquidSignTransaction / 1 /
\* 0x66eee / zero address whatever signatureChainId the caller's action carried;
\* UserSignedPayload takes the chain id from the signatureChainId of the action read as
\* a hexadecimal number, and 0x66eee when the action has none.
C12_UserSignedDomain ==
    /\ last.op = "SignUserSignedAction"
         => last.typedData.val.Domain = WantUserDomain(<<0, 0, 6, 28398>>)
    /\ last.op = "UserSignedPayload"
         => IF "signatureChainId" \in DOMAIN last.action
                 /\ last.action["signatureChainId"].kind = "string"
            THEN last.ret.Domain
                   = WantUserDomain(WantChainId[last.action["signatureChainId"].str])
            ELSE last.ret.Domain = WantUserDomain(<<0, 0, 6, 28398>>)

C12_Witness ==
    /\ last.op = "SignUserSignedAction" /\ last.ret.err = ""
    /\ "signatureChainId" \in DOMAIN last.action
    /\ last.action["signatureChainId"] = Str("0xa4b1")
    /\ last.actionAfter["signatureChainId"] = Str("0x66eee")

\* the declared types that are integer types
WantIntegerTypes == {"uint64", "uint256"}

\* the Go values that are integers
IsGoInteger(v) == v.kind \in {"int64", "uint64", "int", "uint32", "*big.Int"}

\* the sum of two four-limb numbers as five limbs, the carry first
AddLimbs(a, b) ==
    LET s4 == a[4] + b[4]
        s3 == a[3] + b[3] + s4 \div 65536
        s2 == a[2] + b[2] + s3 \div 65536
        s1 == a[1] + b[1] + s2 \div 65536
    IN  <<s1 \div 65536, s1 % 65536, s2 % 65536, s3 % 65536, s4 % 65536>>

\* b is a big integer with the numeric value of the Go integer v
SameNumber(b, v) ==
    /\ b.kind = "*big.Int"
    /\ CASE v.kind = "uint64"   -> ~b.neg /\ b.mag = v.limbs
         [] v.kind = "int64"    -> IF v.limbs[1] < 32768 THEN ~b.neg /\ b.mag = v.limbs
                                   ELSE b.neg /\ AddLimbs(b.mag, v.limbs) = <<1, 0, 0, 0, 0>>
         [] v.kind = "*big.Int" -> b = v
         [] OTHER               -> IF v.int >= 0 THEN ~b.neg /\ b.mag = <<0, 0, 0, v.int>>
                                   ELSE b.neg /\ b.mag = <<0, 0, 0, 0 - v.int>>

\* C13: for every field whose declared type is an integer type and that the action has,
\* the value UserSignedPayload copies into Message is a big integer of the same numeric
\* value, never the machine integer; values of fields of any other type are copied
\* unchanged.
C13_IntegerFieldsWidened ==
    last.op = "UserSignedPayload"
    => \A i \in DOMAIN last.signatureTypes :
         LET name == last.signatureTypes[i].Name
             type == last.signatureTypes[i].Type
         IN  name \in DOMAIN last.action
             => IF type \in WantIntegerTypes
                THEN IsGoInteger(last.action[name])
                       => SameNumber(last.ret.Message[name], last.action[name])
                ELSE last.ret.Message[name] = last.action[name]

\* C14: a field that the sign-type table declares and the action lacks is skipped by
\* UserSignedPayload: it is absent from Message, the other declared fields of the action
\* are copied, and the call returns its envelope (it has no error result).
C14_MissingFieldSkipped ==
    (last.op = "UserSignedPayload" /\ ~(Declared(last.signatureTypes) \subseteq DOMAIN last.action))
    => /\ \A name \in Declared(last.signatureTypes) :
            name \in DOMAIN last.ret.Message <=> name \in DOMAIN last.action
       /\ DOMAIN last.ret = {"Types", "PrimaryType", "Domain", "Message"}
       /\ last.ret.PrimaryType = last.primaryType

C14_Witness ==
    /\ last.op = "UserSignedPayload"
    /\ "destination" \in Declared(last.signatureTypes)
    /\ "destination" \notin DOMAIN last.action
    /\ "destination" \notin DOMAIN last.ret.Message
    /\ "amount" \in DOMAIN last.ret.Message

\* C15: for both envelopes the digest handed to the curve signer is Keccak-256 of the
\* byte 0x19, the byte 0x01, the domain separator (HashStruct of EIP712Domain over the
\* Domain) and the message hash (HashStruct of the primary type over the Message), in
\* this order.
C15_FinalDigest ==
    Signed(last)
    => LET typedData == last.typedData.val
           separator == HashStruct(typedData, "EIP712Domain", DomainMap(typedData.Domain))
           message   == HashStruct(typedData, typedData.PrimaryType, typedData.Message)
       IN  /\ ~separator.err /\ ~message.err
           /\ last.ret.digest = Ptr([keccak256 |-> <<25, 1, separator.hash.val, message.hash.val>>])

C15_Witness ==
    /\ Signed(last) /\ last.op = "SignL1Action"
    /\ last.ret.digest.val.keccak256[3] # last.ret.digest.val.keccak256[4]
    /\ last.ret.digest.val.keccak256[4].keccak256[1].typeHash[1] = "Agent"

-----------------------------------------------------------------------------
(* Errors and effects of the signers *)

\* the action that a signer hands to the encoder
HashedAction(c) ==
    IF c.op = "SignMultiSigAction"
    THEN GoMap([k \in DOMAIN c.action.m \ {"type"} |-> c.action.m[k]])
    ELSE c.action

\* one of the steps of the signer call c fails: the encoding of the action, the
\* decoding of the vault address, the hashing of the domain or of the message, the curve
SomeStepFails(c) ==
    \/ /\ c.op \in {"SignL1Action", "SignMultiSigAction"}
       /\ \/ ~Encodable(HashedAction(c))
          \/ ~c.vaultAddress.isNil /\ AddressToBytes(c.vaultAddress.val).err
    \/ /\ ~c.typedData.isNil
       /\ \/ HashStruct(c.typedData.val, "EIP712Domain", DomainMap(c.typedData.val.Domain)).err
          \/ HashStruct(c.typedData.val, c.typedData.val.PrimaryType,
                        c.typedData.val.Message).err
    \/ ~ValidKey(c.privateKey)

\* C16: when the encoding of the action, the decoding of the vault address, the hashing
\* of the domain or of the message, or the curve operation fails, the signer returns an
\* error and no signature; a signature is returned only without an error.
C16_FailureGivesErrorAndNoSignature ==
    IsSigner(last)
    => /\ SomeStepFails(last) => (last.ret.err # "" /\ last.ret.sig = Nil)
       /\ last.ret.err # "" => last.ret.sig = Nil
       /\ last.ret.err = "" => (last.ret.sig # Nil /\ ~SomeStepFails(last))

C16_Witness ==
    /\ IsSigner(last)
    /\ ~ValidKey(last.privateKey)
    /\ ~last.typedData.isNil
    /\ last.ret.err = "failed to sign" /\ last.ret.sig = Nil


\* the caller's action as the call c leaves it
ActionAfter(c) == IF "actionAfter" \in DOMAIN c THEN c.actionAfter ELSE c.action

\* C17: a signing operation leaves the action passed by the caller unchanged: no key
\* is added, removed or overwritten.
C17_ActionUnchanged ==
    (IsSigner(last) \/ last.op = "ActionHash") => ActionAfter(last) = last.action


\* C18: SignMultiSigAction hashes, under the given vault address, nonce and expiry, the
\* action without its key type and with every other key, and signs the envelope of
\* primary type HyperliquidTransaction:SendMultiSig whose Message holds exactly
\* hyperliquidChain, multiSigActionHash (that digest as 32 fixed bytes) and nonce.
C18_MultiSigEnvelope ==
    last.op = "SignMultiSigAction"
    => LET copy == HashedAction(last)
           want == ActionHash(copy, last.vaultAddress, last.nonce, last.expiresAfter,
                              last.iter)
           td   == last.typedData.val
       IN  /\ DOMAIN copy.m = DOMAIN last.action.m \ {"type"}
           /\ \A k \in DOMAIN copy.m : copy.m[k] = last.action.m[k]
           /\ (want.err = "") = ~last.typedData.isNil
           /\ want.err = ""
              => /\ last.hash = want.hash
                 /\ td.PrimaryType = "HyperliquidTransaction:SendMultiSig"
                 /\ DOMAIN td.Message = {"hyperliquidChain", "multiSigActionHash", "nonce"}
                 /\ td.Message.hyperliquidChain
                       = Str(IF last.isMainnet THEN "Mainnet" ELSE "Testnet")
                 /\ td.Message.multiSigActionHash.kind = "common.Hash"
                 /\ DOMAIN td.Message.multiSigActionHash.bytes = 1..32
                 /\ \A i \in 1..32 :
                      td.Message.multiSigActionHash.bytes[i] = ByteAt(want.hash.val, i)
                 /\ SameNumber(td.Message.nonce, Int64(Limbs(last.nonce)))

C18_Witness ==
    /\ last.op = "SignMultiSigAction"
    /\ "type" \in DOMAIN last.action.m
    /\ DOMAIN last.action.m # {"type"}
    /\ ~last.vaultAddress.isNil /\ ~last.expiresAfter.isNil
    /\ last.ret.err = ""
    /\ ~last.typedData.isNil

-----------------------------------------------------------------------------
(* Properties of the wire conversions *)

IsWire(c)   == c.op = "FloatToWire"
Accepted(c) == IsWire(c) /\ c.ret.err = ""

\* the multiple of 10^-8 nearest to the finite value x, as int and frac
WantRounded(x) ==
    IF 2 * x.rem > 100000
    THEN IF x.frac = 99999999 THEN [int |-> x.int + 1, frac |-> 0]
         ELSE [int |-> x.int, frac |-> x.frac + 1]
    ELSE [int |-> x.int, frac |-> x.frac]

\* the distance of x from that multiple, in units of 10^-13
WantDistance(x) == IF 2 * x.rem > 100000 THEN 100000 - x.rem ELSE x.rem

\* the digits of frac / 10^width without the zeros at the end
RECURSIVE WantFraction(_, _)
WantFraction(frac, width) ==
    IF width = 0 THEN <<>>
    ELSE IF frac % 10 = 0 THEN WantFraction(frac \div 10, width - 1)
    ELSE [i \in 1..width |-> HexChars[((frac \div 10 ^ (width - i)) % 10) + 1]]

\* the wire string of the finite value x
WantWire(x) ==
    LET r == WantRounded(x)
    IN  (IF x.neg /\ (r.int # 0 \/ r.frac # 0) THEN <<"-">> ELSE <<>>)
        \o Digits(r.int)
        \o (IF r.frac = 0 THEN <<>> ELSE <<".">> \o WantFraction(r.frac, 8))

\* C19: the string of an accepted value is its rounding to 8 decimals without trailing
\* zeros after the decimal point, without a bare decimal point and without the sign of
\* a zero: it never ends in ".", never ends in "0" after a decimal point, is never
\* "-0" and keeps every digit before the point; 1670.1 gives "1670.1", 100.0 gives "100".
C19_WireNormalized ==
    Accepted(last)
    => LET s == last.ret.str
       IN  /\ s # <<>>
           /\ s[Len(s)] # "."
           /\ "." \in Range(s) => s[Len(s)] # "0"
           /\ s # <<"-", "0">>
           /\ last.x.class = "finite" => s = WantWire(last.x)
           /\ last.x = Float(FALSE, 1670, 10000000, 0) => s = <<"1", "6", "7", "0", ".", "1">>
           /\ last.x = Float(FALSE, 100, 0, 0) => s = <<"1", "0", "0">>

C19_Witness ==
    /\ Accepted(last)
    /\ last.x = Float(FALSE, 100, 0, 0)
    /\ last.ret.str = <<"1", "0", "0">>

\* C20 as stated: a value that needs more than 8 decimals gets the precision error and
\* no string.
C20_MoreThanEightDecimalsRejected ==
    (IsWire(last) /\ last.x.class = "finite" /\ last.x.rem # 0)
    => (last.ret.err = "float_to_wire causes rounding" /\ last.ret.str = <<>>)

\* C20: a value at 10^-12 or more from its rounding to 8 decimals gets the precision
\* error and no string; a value nearer than that is accepted.
C20_RoundingBeyondToleranceRejected ==
    (IsWire(last) /\ last.x.class = "finite")
    => IF WantDistance(last.x) >= 10
       THEN last.ret.err = "float_to_wire causes rounding" /\ last.ret.str = <<>>
       ELSE last.ret.err = ""

C20_Witness ==
    /\ IsWire(last)
    /\ last.x = Float(FALSE, 0, 12345678, 11)
    /\ last.ret.err = "float_to_wire causes rounding" /\ last.ret.str = <<>>


\* the value x converts: FloatToWire returns no error for it
Converts(x) == FloatToWire(x).err = ""

\* the variants that are set in an order type wire
Variants(wire) == {v \in {"Limit", "Trigger"} : wire.vals[v] # NilPtr}

-----------------------------------------------------------------------------
(* Properties of the exchange client *)

Capitals ==
    {"A", "B", "C", "D", "E", "F", "G", "H", "I", "J", "K", "L", "M", "N", "O", "P", "Q",
     "R", "S", "T", "U", "V", "W", "X", "Y", "Z"}

\* the fields of a user-signed message that hold an address
AddressFields == {"destination", "validator", "agentAddress", "builder", "user"}

\* C22: an address that is a value of a signed message is in lowercase in what is
\* hashed and signed, whatever letter case the caller supplied.
C22_SignedAddressesLowercase ==
    (last.op = "USDTransfer" /\ ~last.typedData.isNil)
    => \A k \in AddressFields \cap DOMAIN last.typedData.val.Message :
         Range(last.typedData.val.Message[k].str) \cap Capitals = {}


\* the call c got a reply envelope
GotEnvelope(c) ==
    /\ c.op \in {"exchangePost", "DecodeResponse"}
    /\ c.reply.transport = "" /\ c.reply.isJson

\* the error err carries the string s of the reply
Carries(err, s) ==
    \/ "msg" \in DOMAIN err /\ err.msg = s
    \/ "Message" \in DOMAIN err /\ err.Message = JString(s)

\* C23: for a reply envelope whose status is not "ok" the call returns an error, with
\* the error string of the reply when the response is one, and leaves the caller's
\* result as it was; the result changes only for a status "ok".
C23_ErrorStatusLeavesResult ==
    GotEnvelope(last)
    => LET envelope == last.reply.respData
       IN  /\ envelope.Status # "ok"
              => /\ last.err # NoError
                 /\ last.resultAfter = last.result
                 /\ envelope.Response.json = "string"
                    => Carries(last.err, envelope.Response.str)
           /\ last.resultAfter # last.result => envelope.Status = "ok"

C23_Witness ==
    /\ last.op = "exchangePost"
    /\ GotEnvelope(last)
    /\ last.reply.StatusCode = 200
    /\ last.reply.respData = [Status |-> "err", Response |-> JString("Insufficient margin")]
    /\ ~last.result.isNil
    /\ last.err = Errorf("API error: ", "Insufficient margin")
    /\ last.resultAfter = last.result


-----------------------------------------------------------------------------
(* Properties of the WebSocket client *)

\* C24: Client.Read never returns, with data or with an error, because of a subscription
\* response or a pong message: the message that makes Read return is never one of them.
C24_ReadSkipsControlMessages ==
    last.op = "Read" => last.cause \notin {"subscriptionResponse", "pong"}

\* the client is closed: marked not connected, its connection closed and its context
\* cancelled
ClientClosed ==
    /\ ~client.isConnected
    /\ client.conn.isNil \/ IsClosed(net, client.conn.val)
    /\ client.cancel.isNil \/ client.cancel.val \in net.cancelled

\* a step in which Read returns an error
ReadFails ==
    /\ CallRead \/ ReadMessage
    /\ net'.closes # net.closes
    /\ last'.op = "Read" /\ last'.err # ""

\* C25: whenever Client.Read returns an error the client is closed when Read returns,
\* and once a Read has returned an error the client never dials and never subscribes
\* again.
C25_FailedReadClosesForGood ==
    /\ [][ReadFails => ClientClosed']_vars
    /\ [][net.failed => net'.dials = net.dials /\ net'.subscriptions = net.subscriptions]_vars

\* C26: Client.Close can be called any number of times: a call made when the connection
\* of the client has been closed already does not close it again and returns no error.
C26_CloseIdempotent ==
    last.op = "Close" /\ last.again => ~last.closed /\ last.err = ""


-----------------------------------------------------------------------------
(* Properties of the post-only WebSocket client *)

\* the waiter channel made for the request id has received one message and is closed
Delivered(id) ==
    \E k \in DOMAIN net.chans :
        /\ net.chans[k].ID = id
        /\ Len(net.chans[k].msgs) = 1
        /\ net.chans[k].closes = 1

\* C28: every request whose write to the connection succeeded eventually gets one
\* message on its waiter channel, the response with its id or the "websocket closed"
\* error, and the channel is closed.
C28_EveryWaiterServed ==
    \A id \in 1..MaxRequests : (id \in net.written) ~> Delivered(id)

\* C29: request ids are strictly increasing and never reused, at most one waiter is
\* registered per id, each waiter channel receives at most one message and is closed at
\* most once, nothing is sent on or closes a closed channel, and a response is delivered
\* only to the waiter registered under its own id.
C29_WaitersServedOnce ==
    /\ net.panics = 0
    /\ \A k \in DOMAIN net.chans :
         /\ Len(net.chans[k].msgs) <= 1
         /\ net.chans[k].closes <= 1
         /\ \A i \in DOMAIN net.chans[k].msgs :
              LET m == net.chans[k].msgs[i]
              IN  m.err = "websocket closed" \/ m.id = net.chans[k].ID
    /\ \A k, l \in DOMAIN net.chans : k < l => net.chans[k].ID < net.chans[l].ID
    /\ \A id \in DOMAIN client.respWaiters :
         /\ client.respWaiters[id].ID = id
         /\ net.chans[client.respWaiters[id].ch].ID = id
    /\ pc.read.at = "send" => pc.read.waiter.ID = pc.read.resp.id

\* Read has delivered the response of one request and the cleanup of pingRoutine the
\* "websocket closed" error of another, and both channels are closed
C29_Witness ==
    /\ pc.ping.at = "done"
    /\ \E k, l \in DOMAIN net.chans :
         /\ net.chans[k].closes = 1 /\ net.chans[l].closes = 1
         /\ net.chans[k].msgs = <<[id |-> net.chans[k].ID, err |-> ""]>>
         /\ net.chans[l].msgs = <<[id |-> 0, err |-> "websocket closed"]>>

\* C30: at most one goroutine writes to the connection of a client at any time.
C30_OneWriterAtATime == Cardinality(net.writers) <= 1

=============================================================================
